---------------------------- MODULE Spec2Model ----------------------------
(***************************************************************************)
(* The radar overlay of radar-map (src/src/lib/components/                 *)
(* WeatherOverlay.svelte) as a state machine: the frame set and its map    *)
(* layers, the cross-fade started by showFrame and carried by              *)
(* requestAnimationFrame callbacks, the setInterval playback timer, and    *)
(* the load that suspends on the hazard-feed fetch, the hazard index it    *)
(* computes from the feed and the warnings layer drawn from it.  Frame     *)
(* timestamps are computed as weatherService.generateRadarFrameTimestamps  *)
(* computes them, through local time.  The caches of the origin are a      *)
(* second machine beside the overlay: the api, the tile and the static     *)
(* cache with their writers and readers, the cache service                 *)
(* (src/unnamed/part_002), the fetch, install and activate handlers of     *)
(* the service worker (src/unnamed/part_004) and loadWeatherAlerts of the  *)
(* weather store (src/src/lib/stores/weatherStore.js).  The store's        *)
(* auto-refresh interval timer is a third machine.                         *)
(*                                                                         *)
(* Handlers run to completion (one action each); they interleave only at   *)
(* the suspension points of the code: the awaited fetch, the animation     *)
(* frame and the interval timer.                                           *)
(***************************************************************************)
EXTENDS Integers, Sequences, FiniteSets, TLC

VARIABLES
    mounted,            \* the component has run its first reactive pass and onMount
    visible,            \* prop `visible`
    frameCount,         \* `frameCount`, the configured number of frames
    timeZone,           \* the host's time zone rule (read by Date's local-time methods)
    radarFrames,        \* `radarFrames`: sequence of [timestamp, layer]
    currentFrameIndex,  \* `currentFrameIndex` (0-based, as in the code)
    animationInterval,  \* `animationInterval`: NULL or the handle of the interval
    timers,             \* number of live setInterval timers of the component
    isAnimating,        \* `isAnimating`
    isTransitioning,    \* `isTransitioning`
    opacity,            \* opacity of every radar layer created so far
    mapLayers,          \* the radar layers currently added to the map
    rafQueue,           \* pending requestAnimationFrame callbacks, oldest first
    pendingLoads,       \* the loads (by number) suspended on their hazard fetch
    pendingWarnings,    \* loadWarnings calls suspended on their hazard fetch
    features,           \* `data.features`: the hazards the feed returns
    warningsByFrame,    \* `warningsByFrame`: per frame, the ids of its hazards
    warningsLayer,      \* `warningsLayer`: no group, or the group on the map
    fetched,            \* hazard-feed requests issued by the last handler
    response,           \* outcome of the fetch the last handler resumed from
    clock,              \* the time `new Date()` gave the last load (minutes)
    loads,              \* number of frame sets built so far (names the layers)
    dispatched,         \* the events dispatched by the last handler, in order
    errorMessage,       \* `errorMessage`: null, or the message shown with Retry
    lastOp,             \* the handler that ran last
    apiTier,            \* the cache `radar-map-api-v1`: its entries, oldest put first
    mapTier,            \* the cache `radar-map-tiles-v1`
    staticTier,         \* the cache `radar-map-static-v1`
    otherCaches,        \* names of the origin's caches besides these three
    epoch,              \* per cache name, how often caches.delete has dropped it
    inFlight,           \* fetch events of the service worker that have not finished
    swResponse,         \* the answer the service worker gave in the last step, if any
    clearing,           \* clearAllCaches in progress: the deletes not yet done
    clears,             \* number of clearAllCaches calls so far
    time,               \* Date.now() of the cache service, in minutes
    trimsPending,       \* cacheApiResponse calls that have put and not yet trimmed
    tileTrimsPending,   \* cacheMapTiles calls that have put and not yet trimmed
    stored,             \* per url, what was last passed to cacheApiResponse, and when
    result,             \* what the cache service returned in the last step, if anything
    cacheOp,            \* the step of the cache service that ran last
    autoRefresh,        \* weatherStore: `autoRefresh`
    refreshInterval,    \* weatherStore: `refreshInterval`, null or a timer handle
    liveIntervals,      \* handles setInterval returned and clearInterval has not had
    intervalsSet,       \* number of setInterval calls of the weather store so far
    storeOp             \* the function of the weather store that ran last

cacheVars == <<apiTier, mapTier, staticTier, otherCaches, epoch, inFlight,
               swResponse, clearing, clears, time, trimsPending,
               tileTrimsPending, stored, result, cacheOp>>

\* What the api-tier calls of the cache service leave alone.
workerVars == <<mapTier, staticTier, otherCaches, epoch, inFlight, clearing,
                clears, tileTrimsPending>>

\* The overlay's variables, left alone by the cache service.
overlayVars == <<mounted, visible, frameCount, timeZone, radarFrames,
                 currentFrameIndex, animationInterval, timers, isAnimating,
                 isTransitioning, opacity, mapLayers, rafQueue, pendingLoads,
                 pendingWarnings, features, warningsByFrame, warningsLayer,
                 fetched, response, clock, loads, dispatched, errorMessage,
                 lastOp>>

\* The weather store's auto-refresh state, left alone by overlay and caches.
storeVars == <<autoRefresh, refreshInterval, liveIntervals, intervalsSet,
               storeOp>>

vars == <<overlayVars, cacheVars, storeVars>>

-----------------------------------------------------------------------------
(* Bounds of the model *)

MaxFrameCount == 3          \* frameCount ranges over 0..MaxFrameCount
MaxLoads == 2               \* at most this many frame sets are built in a run
StepsPerTransition == 2     \* clock steps that make up transitionDuration

MaxConcurrentPuts == 1      \* cacheApiResponse calls in progress at a time
MaxInFlight == 1            \* fetch events the service worker handles at a time
MaxClears == 1              \* clearAllCaches calls in a run

(* Program constants *)

VisibleTenths == 7          \* the visible opacity 0.7, in tenths
IntervalMinutes == 5        \* the interval loadRadarFrames passes
MinutesPerHour == 60
DstShift == 60              \* minutes a daylight-saving transition moves local time
StdOffset == -300           \* a standard-time offset from UTC, in minutes
MAX_MAP_CACHE_SIZE == 50    \* 50 * 1024 * 1024 bytes, in megabytes
MAX_API_CACHE_SIZE == 5     \* 5 * 1024 * 1024 bytes, in megabytes
MAX_API_CACHE_AGE == 30     \* 30 * 60 * 1000 ms, in minutes
TrimThreshold == 10         \* trimCache leaves a cache of up to 10 entries alone

NULL == "null"
UNDEFINED == "undefined"

Min(a, b) == IF a < b THEN a ELSE b
Max(a, b) == IF a > b THEN a ELSE b

-----------------------------------------------------------------------------
(* Date: local time.  Times are minutes; the host zone has at most one     *)
(* transition, at UTC minute 0.                                            *)

TimeZones == {"fixed", "forward", "back"}

\* Offset of local time from UTC in force at UTC time t.
OffsetBefore(tz) == IF tz = "back" THEN StdOffset + DstShift ELSE StdOffset
OffsetAfter(tz) == IF tz = "forward" THEN StdOffset + DstShift ELSE StdOffset
Offset(tz, t) == IF t < 0 THEN OffsetBefore(tz) ELSE OffsetAfter(tz)

\* ECMAScript LocalTime(t).
LocalTime(tz, t) == t + Offset(tz, t)

\* ECMAScript UTC(tlocal): the UTC time whose local time is tlocal; a local
\* time that is skipped or repeated at the transition is read with the
\* offset in force before the transition.
UTC(tz, tl) ==
    LET before == tl - OffsetBefore(tz)
        after == tl - OffsetAfter(tz)
    IN  IF before < 0 THEN before       \* a time of before the transition
        ELSE IF after >= 0 THEN after   \* a time of after it only
        ELSE before                     \* skipped by the transition

\* Date.prototype.getMinutes.
GetMinutes(tz, t) == LocalTime(tz, t) % MinutesPerHour

\* Date.prototype.setMinutes(m) on a date of time value t.
SetMinutes(tz, t, m) ==
    LET tl == LocalTime(tz, t)
    IN  UTC(tz, tl - (tl % MinutesPerHour) + m)

\* generateRadarFrameTimestamps: newest first.
GenerateRadarFrameTimestamps(tz, now, count, intervalMinutes) ==
    [k \in 1..count |->
        SetMinutes(tz, now, GetMinutes(tz, now) - ((k - 1) * intervalMinutes))]

\* [...timestamps].reverse()
Reverse(s) == [k \in 1..Len(s) |-> s[Len(s) + 1 - k]]


-----------------------------------------------------------------------------
(* The hazard feed.  A feature of the feed has an id, may lack             *)
(* `properties`, and has a geometry that is absent (null), or lacks        *)
(* `coordinates`, or has coordinates and lacks `type`, or is a Polygon or  *)
(* a Point.  Coordinates are GeoJSON positions <<lng, lat>>; times are     *)
(* minutes, as the frame timestamps.                                       *)

\* map.getBounds(): the viewport.
Bounds == [south |-> 0, north |-> 10, west |-> 20, east |-> 30]

\* bounds.contains([lat, lng])
Contains(bounds, lat, lng) ==
    /\ lat >= bounds.south /\ lat <= bounds.north
    /\ lng >= bounds.west /\ lng <= bounds.east

\* First rings: one with a single vertex in the viewport, one with none
\* (its vertices would be inside with latitude and longitude exchanged).
RingStraddling == << <<25, 5>>, <<40, 5>>, <<40, 50>> >>
RingOutside == << <<5, 25>>, <<5, 40>>, <<8, 40>> >>

Hazard(id, properties, geometry, ring, effective, expires) ==
    [id |-> id, properties |-> properties, geometry |-> geometry,
     ring |-> ring, effective |-> effective, expires |-> expires]

\* The features a feed is made of.
HazardUniverse ==
    { Hazard("a", TRUE, "Polygon", RingStraddling, 0, 125),
      Hazard("b", TRUE, "Polygon", RingOutside, -100, 1000),
      Hazard("c", TRUE, "null", <<>>, -100, 1000),
      Hazard("d", TRUE, "noType", RingStraddling, 120, 1000),
      Hazard("e", TRUE, "noCoordinates", <<>>, -100, 1000),
      Hazard("f", TRUE, "Point", <<>>, -100, 1000),
      Hazard("g", FALSE, "Polygon", RingStraddling, -100, 1000) }

\* feature.geometry, feature.geometry.coordinates, feature.geometry.type
HasGeometry(h) == h.geometry # "null"
HasCoordinates(h) == h.geometry \in {"noType", "Polygon", "Point"}
HasType(h) == h.geometry \in {"noCoordinates", "Polygon", "Point"}

\* frameTime >= effectiveTime && frameTime <= expiresTime
IsActiveAtTime(h, frameTime) == frameTime >= h.effective /\ frameTime <= h.expires

\* coords.some(coord => bounds.contains([coord[1], coord[0]]))
SomeVertexInBounds(ring, bounds) ==
    \E k \in 1..Len(ring) : Contains(bounds, ring[k][2], ring[k][1])

\* The filter callback of loadWarningsForFrames, lines 295-318: the feature
\* is kept ("in"), dropped ("out"), or the callback throws a TypeError
\* (`type` of a geometry without type is undefined).
FilterFeature(h, frameTime, bounds) ==
    IF ~h.properties \/ ~HasGeometry(h) THEN "out"
    ELSE IF ~IsActiveAtTime(h, frameTime) THEN "out"
    ELSE IF HasCoordinates(h)
         THEN (IF ~HasType(h) THEN "throw"
               ELSE IF h.geometry = "Polygon"
                    THEN (IF SomeVertexInBounds(h.ring, bounds) THEN "in" ELSE "out")
                    ELSE "in")
         ELSE "in"

\* radarFrames.map(frame => data.features.filter(...)), lines 291-319, when
\* no callback throws.
ComputeIndex(feed, frames, bounds) ==
    [k \in 1..Len(frames) |->
        {h.id : h \in {x \in feed :
                         FilterFeature(x, frames[k].timestamp, bounds) = "in"}}]

\* Some callback of the map throws.
ComputeIndexThrows(feed, frames, bounds) ==
    \E k \in 1..Len(frames) : \E h \in feed :
        FilterFeature(h, frames[k].timestamp, bounds) = "throw"

\* radarFrames.map(() => [])
EmptyIndex(frames) == [k \in 1..Len(frames) |-> {}]

\* The feed made of the features of the given ids.
Feed(ids) == {h \in HazardUniverse : h.id \in ids}

\* What L.geoJSON(feature.geometry) can draw, lines 351-356.
Drawable(feed, ids) ==
    {h.id : h \in {x \in feed : x.id \in ids /\ x.properties
                                  /\ x.geometry \in {"Polygon", "Point"}}}

-----------------------------------------------------------------------------
(* The overlay's state as one record, so that a handler is the composition *)
(* of the functions it calls.                                              *)

\* The layers the program can still reach: those of the frame set and those
\* captured by a pending animation callback.  The others are garbage and
\* their opacity is dropped when the next handler starts.
Reachable ==
    {radarFrames[k].layer : k \in 1..Len(radarFrames)}
        \cup {rafQueue[k].from : k \in 1..Len(rafQueue)}
        \cup {rafQueue[k].to : k \in 1..Len(rafQueue)}

Cur == [visible |-> visible, radarFrames |-> radarFrames,
        currentFrameIndex |-> currentFrameIndex,
        animationInterval |-> animationInterval, timers |-> timers,
        isAnimating |-> isAnimating, isTransitioning |-> isTransitioning,
        opacity |-> [l \in DOMAIN opacity \cap Reachable |-> opacity[l]],
        mapLayers |-> mapLayers, rafQueue |-> rafQueue,
        pendingLoads |-> pendingLoads, pendingWarnings |-> pendingWarnings,
        warningsByFrame |-> warningsByFrame, warningsLayer |-> warningsLayer,
        fetched |-> 0, response |-> "none", clock |-> clock, loads |-> loads,
        dispatched |-> <<>>, errorMessage |-> errorMessage]

Commit(s, op) ==
    /\ visible' = s.visible
    /\ radarFrames' = s.radarFrames
    /\ currentFrameIndex' = s.currentFrameIndex
    /\ animationInterval' = s.animationInterval
    /\ timers' = s.timers
    /\ isAnimating' = s.isAnimating
    /\ isTransitioning' = s.isTransitioning
    /\ opacity' = s.opacity
    /\ mapLayers' = s.mapLayers
    /\ rafQueue' = s.rafQueue
    /\ pendingLoads' = s.pendingLoads
    /\ pendingWarnings' = s.pendingWarnings
    /\ warningsByFrame' = s.warningsByFrame
    /\ warningsLayer' = s.warningsLayer
    /\ fetched' = s.fetched
    /\ response' = s.response
    /\ clock' = s.clock
    /\ loads' = s.loads
    /\ dispatched' = s.dispatched
    /\ errorMessage' = s.errorMessage
    /\ lastOp' = op
    /\ UNCHANGED <<frameCount, timeZone, features, cacheVars, storeVars>>

\* dispatch(type, detail)
Dispatch(s, e) == [s EXCEPT !.dispatched = Append(@, e)]

\* layer.setOpacity(o)
SetOpacity(s, layer, o) == [s EXCEPT !.opacity[layer] = o]

\* Opacities are counted in units of 1/(10 * StepsPerTransition^3), in which
\* the eased progress of every clock step is a whole number.
Cube(n) == n * n * n
OpacityVisible == VisibleTenths * Cube(StepsPerTransition)

\* radarFrames[i] for a 0-based i.
FrameAt(frames, i) == frames[i + 1]
HasFrame(frames, i) == i >= 0 /\ i < Len(frames)

-----------------------------------------------------------------------------
(* Playback scheduler *)

\* A start that registers an interval whether or not one is registered.
StartAnimationAlways(s) ==
    Dispatch([s EXCEPT !.isAnimating = TRUE,
                       !.animationInterval = "interval",
                       !.timers = @ + 1],
             [type |-> "animationStarted"])

\* startAnimation()
StartAnimation(s) ==
    IF s.animationInterval # NULL THEN s
    ELSE Dispatch([s EXCEPT !.isAnimating = TRUE,
                            !.animationInterval = "interval",
                            !.timers = @ + 1],
                  [type |-> "animationStarted"])

\* A stop that clears the flag and leaves the interval registered.
StopAnimationFlagOnly(s) ==
    Dispatch([s EXCEPT !.isAnimating = FALSE], [type |-> "animationStopped"])

\* stopAnimation()
StopAnimation(s) ==
    LET s1 == IF s.animationInterval # NULL
              THEN [s EXCEPT !.timers = @ - 1, !.animationInterval = NULL]
              ELSE s
    IN  Dispatch([s1 EXCEPT !.isAnimating = FALSE], [type |-> "animationStopped"])

\* toggleAnimation()
ToggleAnimationBody(s) ==
    IF s.isAnimating THEN StopAnimation(s) ELSE StartAnimation(s)

-----------------------------------------------------------------------------
(* Warnings layer *)

\* The two values `errorMessage` takes besides null, lines 123, 323, 458.
RadarMessage == "Failed to load radar data"
WarningsMessage == "Failed to load weather warnings"

\* `warningsLayer` is null, or a layer group added to the map in which the
\* hazards `drawn` have a polygon.
NoWarningsLayer == [onMap |-> FALSE, drawn |-> {}]
LayerGroup(drawn) == [onMap |-> TRUE, drawn |-> drawn]

\* removeWarningsLayer()
RemoveWarningsLayer(s) == [s EXCEPT !.warningsLayer = NoWarningsLayer]

\* showWarningsForFrame(frameIndex): warningsByFrame[frameIndex] is undefined
\* outside the index; an empty entry is an (truthy) empty array.
ShowWarningsForFrame(s, frameIndex) ==
    IF ~HasFrame(s.warningsByFrame, frameIndex) THEN s
    ELSE LET warnings == FrameAt(s.warningsByFrame, frameIndex)
         IN  Dispatch([s EXCEPT !.warningsLayer =
                                   LayerGroup(Drawable(features, warnings))],
                      [type |-> "warningsLoaded", count |-> Cardinality(warnings)])

\* loadWarnings() up to its await, lines 380-394.
LoadWarnings(s) ==
    [s EXCEPT !.errorMessage = NULL,
              !.warningsLayer = LayerGroup({}),
              !.fetched = @ + 1,
              !.pendingWarnings = @ + 1]

\* The filter callback of loadWarnings, lines 406-421.
FilterVisible(h, bounds) ==
    IF HasGeometry(h) /\ HasCoordinates(h)
    THEN (IF ~HasType(h) THEN "throw"
          ELSE IF h.geometry = "Polygon"
               THEN (IF SomeVertexInBounds(h.ring, bounds) THEN "in" ELSE "out")
               ELSE "in")
    ELSE "in"

\* loadWarnings() after its fetch, lines 396-466.
LoadWarningsContinuation(s, ok) ==
    LET s1 == [s EXCEPT !.pendingWarnings = @ - 1,
                        !.response = IF ok THEN "ok" ELSE "failed"]
        visibleWarnings == {h \in features : FilterVisible(h, Bounds) = "in"}
        drawn == Drawable(features, {h.id : h \in visibleWarnings})
    IN  IF ~ok
        THEN Dispatch([s1 EXCEPT !.errorMessage = WarningsMessage],
                      [type |-> "error", source |-> "warnings",
                       error |-> "fetch"])
        ELSE IF \E h \in features : FilterVisible(h, Bounds) = "throw"
        THEN Dispatch([s1 EXCEPT !.errorMessage = WarningsMessage],
                      [type |-> "error", source |-> "warnings",
                       error |-> "TypeError"])
        ELSE IF features = {}
        THEN Dispatch(s1, [type |-> "warningsLoaded", count |-> 0])
        ELSE Dispatch(IF ~s1.warningsLayer.onMap THEN s1   \* addTo(null) throws
                      ELSE [s1 EXCEPT !.warningsLayer.drawn = @ \cup drawn],
                      [type |-> "warningsLoaded",
                       count |-> Cardinality(visibleWarnings)])

-----------------------------------------------------------------------------
(* Frame set *)

\* removeRadarLayer() that drops the frames without map.removeLayer.
RemoveRadarLayerForgetsMap(s) ==
    [s EXCEPT !.radarFrames = <<>>, !.isTransitioning = FALSE]

\* removeRadarLayer()
RemoveRadarLayer(s) ==
    [s EXCEPT !.mapLayers = @ \ {s.radarFrames[k].layer : k \in 1..Len(s.radarFrames)},
              !.radarFrames = <<>>,
              !.isTransitioning = FALSE]

\* The layers of the frame set built by load number g.
NewLayer(g, i) == <<g, i>>

\* A build that leaves every layer at the opacity it was created with.
BuildFramesAllVisible(s, now) ==
    LET g == s.loads + 1
        orderedTimestamps ==
            Reverse(GenerateRadarFrameTimestamps(timeZone, now, frameCount,
                                                 IntervalMinutes))
        newLayers == {NewLayer(g, k - 1) : k \in 1..frameCount}
    IN  [s EXCEPT !.loads = g,
                  !.clock = now,
                  !.radarFrames = [k \in 1..frameCount |->
                                     [timestamp |-> orderedTimestamps[k],
                                      layer |-> NewLayer(g, k - 1)]],
                  !.opacity = [l \in DOMAIN s.opacity \cup newLayers |->
                                 IF l \in newLayers THEN OpacityVisible
                                 ELSE s.opacity[l]],
                  !.mapLayers = @ \cup newLayers]

\* loadRadarFrames(), lines 76-95: create the frames, store them, set the
\* opacities and add every layer to the map.
BuildFrames(s, now) ==
    LET g == s.loads + 1
        orderedTimestamps ==
            Reverse(GenerateRadarFrameTimestamps(timeZone, now, frameCount,
                                                 IntervalMinutes))
        newFrames == [k \in 1..frameCount |->
                        [timestamp |-> orderedTimestamps[k],
                         layer |-> NewLayer(g, k - 1)]]
        newLayers == {NewLayer(g, k - 1) : k \in 1..frameCount}
    IN  [s EXCEPT !.loads = g,
                  !.clock = now,
                  !.radarFrames = newFrames,
                  !.opacity = [l \in DOMAIN s.opacity \cup newLayers |->
                                 IF l \in newLayers
                                 THEN (IF l = NewLayer(g, 0) THEN OpacityVisible ELSE 0)
                                 ELSE s.opacity[l]],
                  !.mapLayers = @ \cup newLayers]

\* The catch block of loadRadarFrames.
LoadFailed(s) ==
    Dispatch([s EXCEPT !.errorMessage = RadarMessage],
             [type |-> "error", source |-> "radar"])

\* loadRadarFrames() up to its await: the synchronous part of a build.
LoadRadarFrames(s, now) ==
    LET s1 == [s EXCEPT !.errorMessage = NULL]
        s2 == RemoveWarningsLayer(RemoveRadarLayer(StopAnimation(s1)))
        s3 == [BuildFrames(s2, now) EXCEPT !.currentFrameIndex = 0]
    IN  IF Len(s3.radarFrames) = 0
        THEN LoadFailed(s3)             \* radarFrames[0].layer throws
        ELSE [s3 EXCEPT !.fetched = @ + 1,      \* loadWarningsForFrames(): fetch
                        !.pendingLoads = @ \cup {s3.loads}]   \* and await

-----------------------------------------------------------------------------
(* Transition controller *)

\* const easeInOutCubic = t => t < 0.5 ? 4*t*t*t : 1 - Math.pow(-2*t + 2, 3)/2
\* for t = e / StepsPerTransition, as a count of 1/StepsPerTransition^3.
EaseInOutCubic(e) ==
    IF 2 * e < StepsPerTransition
    THEN 4 * Cube(e)
    ELSE Cube(StepsPerTransition) - 4 * Cube(StepsPerTransition - e)

\* Math.min(elapsed / transitionDuration, 1), as a count of clock steps.
RawProgress(elapsed) == Min(elapsed, StepsPerTransition)

\* The opacities animate() computes at eased progress p.
OldOpacity(p) == VisibleTenths * (Cube(StepsPerTransition) - p)
NewOpacity(p) == VisibleTenths * p

\* Math.max(0, Math.min(index, radarFrames.length - 1))
ClampIndex(frames, index) == Max(0, Min(index, Len(frames) - 1))

\* showFrame without the isTransitioning guard.
ShowFramePreempting(s, index) ==
    IF Len(s.radarFrames) = 0 THEN s
    ELSE LET clamped == ClampIndex(s.radarFrames, index)
         IN  IF clamped = s.currentFrameIndex THEN s
             ELSE [s EXCEPT
                     !.isTransitioning = TRUE,
                     !.rafQueue = Append(@,
                        [from |-> FrameAt(s.radarFrames, s.currentFrameIndex).layer,
                         to |-> FrameAt(s.radarFrames, clamped).layer,
                         index |-> clamped,
                         elapsed |-> 0])]

\* showFrame(index), lines 152-166 and 213: the guards, and the first
\* requestAnimationFrame(animate) with what the closure captures.
ShowFrame(s, index) ==
    IF Len(s.radarFrames) = 0 \/ s.isTransitioning THEN s
    ELSE LET clamped == ClampIndex(s.radarFrames, index)
         IN  IF clamped = s.currentFrameIndex THEN s
             ELSE [s EXCEPT
                     !.isTransitioning = TRUE,
                     !.rafQueue = Append(@,
                        [from |-> FrameAt(s.radarFrames, s.currentFrameIndex).layer,
                         to |-> FrameAt(s.radarFrames, clamped).layer,
                         index |-> clamped,
                         elapsed |-> 0])]

\* A completion that leaves currentFrameIndex alone.
AnimationCompleteKeepsIndex(s, loop) ==
    LET s1 == ShowWarningsForFrame([s EXCEPT !.isTransitioning = FALSE],
                                   loop.index)
    IN  IF HasFrame(s1.radarFrames, s1.currentFrameIndex)
        THEN Dispatch(s1, [type |-> "frameChanged",
                           index |-> s1.currentFrameIndex,
                           timestamp |-> FrameAt(s1.radarFrames,
                                                 s1.currentFrameIndex).timestamp,
                           total |-> Len(s1.radarFrames)])
        ELSE s1

\* The completion branch of animate(), lines 195-208.
AnimationComplete(s, loop) ==
    LET s1 == ShowWarningsForFrame([s EXCEPT !.isTransitioning = FALSE,
                                             !.currentFrameIndex = loop.index],
                                   loop.index)
    IN  IF HasFrame(s1.radarFrames, s1.currentFrameIndex)
        THEN Dispatch(s1, [type |-> "frameChanged",
                           index |-> s1.currentFrameIndex,
                           timestamp |-> FrameAt(s1.radarFrames,
                                                 s1.currentFrameIndex).timestamp,
                           total |-> Len(s1.radarFrames)])
        ELSE s1     \* radarFrames[currentFrameIndex] is undefined: TypeError

\* An animate() that does not ask for its next animation frame.
AnimateStalling(s, loop) ==
    LET rawProgress == RawProgress(loop.elapsed)
        progress == EaseInOutCubic(rawProgress)
        s1 == SetOpacity(SetOpacity(s, loop.from, OldOpacity(progress)),
                         loop.to, NewOpacity(progress))
    IN  IF rawProgress < StepsPerTransition
        THEN s1
        ELSE AnimationComplete(s1, loop)

\* animate(), one callback of the loop `loop`, taken from the queue.
Animate(s, loop) ==
    LET rawProgress == RawProgress(loop.elapsed)
        progress == EaseInOutCubic(rawProgress)
        s1 == SetOpacity(SetOpacity(s, loop.from, OldOpacity(progress)),
                         loop.to, NewOpacity(progress))
    IN  IF rawProgress < StepsPerTransition
        THEN [s1 EXCEPT !.rafQueue = Append(@, loop)]
        ELSE AnimationComplete(s1, loop)

-----------------------------------------------------------------------------
(* The continuations of the two fetches *)

\* A catch block that leaves the index as it was.
WarningsFailedKeepsIndex(s, error) ==
    Dispatch([s EXCEPT !.errorMessage = WarningsMessage],
             [type |-> "error", source |-> "warnings", error |-> error])

\* The catch block of loadWarningsForFrames, lines 321-333, entered with
\* the error `error`.
WarningsFailed(s, error) ==
    [Dispatch(s, [type |-> "error", source |-> "warnings", error |-> error])
        EXCEPT !.errorMessage = WarningsMessage,
               !.warningsByFrame = EmptyIndex(s.radarFrames)]

\* loadWarningsForFrames() after its fetch, lines 276-333; `ok` says that
\* the fetch resolved with a success status.
WarningsForFramesSettled(s0, ok) ==
    LET s == [s0 EXCEPT !.response = IF ok THEN "ok" ELSE "failed"]
    IN  IF ~ok THEN WarningsFailed(s, "fetch")
        ELSE IF features = {}
        THEN [s EXCEPT !.warningsByFrame = EmptyIndex(s.radarFrames)]
        ELSE IF ComputeIndexThrows(features, s.radarFrames, Bounds)
        THEN WarningsFailed(s, "TypeError")
        ELSE [s EXCEPT !.warningsByFrame =
                          ComputeIndex(features, s.radarFrames, Bounds)]

\* A continuation that leaves the scheduler stopped.
LoadContinuationNoStart(s, g, ok) ==
    LET s1 == WarningsForFramesSettled([s EXCEPT !.pendingLoads = @ \ {g}], ok)
        s2 == Dispatch(s1, [type |-> "radarLoaded"])
    IN  IF ~HasFrame(s2.radarFrames, s2.currentFrameIndex)
        THEN LoadFailed(s2)
        ELSE ShowWarningsForFrame(
                 Dispatch(s2, [type |-> "frameChanged",
                               index |-> s2.currentFrameIndex,
                               timestamp |-> FrameAt(s2.radarFrames,
                                                     s2.currentFrameIndex).timestamp,
                               total |-> Len(s2.radarFrames)]),
                 s2.currentFrameIndex)

\* loadRadarFrames() of load number g after `await loadWarningsForFrames()`,
\* lines 104-131.
LoadContinuation(s, g, ok) ==
    LET s1 == WarningsForFramesSettled([s EXCEPT !.pendingLoads = @ \ {g}], ok)
        s2 == Dispatch(s1, [type |-> "radarLoaded"])
    IN  IF ~HasFrame(s2.radarFrames, s2.currentFrameIndex)
        THEN LoadFailed(s2)     \* radarFrames[currentFrameIndex] is undefined
        ELSE LET s3 == ShowWarningsForFrame(
                          Dispatch(s2, [type |-> "frameChanged",
                                        index |-> s2.currentFrameIndex,
                                        timestamp |-> FrameAt(s2.radarFrames,
                                                        s2.currentFrameIndex).timestamp,
                                        total |-> Len(s2.radarFrames)]),
                          s2.currentFrameIndex)
             IN  IF Len(s3.radarFrames) > 1 THEN StartAnimation(s3) ELSE s3

-----------------------------------------------------------------------------
(* Handlers *)

\* The times a load may read from the clock (minutes from the zone's
\* transition).
NowValues == {5, 130}

\* The reactive statement on `visible`, lines 43-52.
VisibleChanged(s, now) ==
    IF s.visible
    THEN LoadWarnings(LoadRadarFrames(s, now))
    ELSE RemoveWarningsLayer(RemoveRadarLayer(StopAnimation(s)))

\* Component initialisation: the first run of the reactive statement, then
\* onMount.
Mount ==
    /\ ~mounted
    /\ mounted' = TRUE
    /\ \E now \in NowValues :
         LET s1 == VisibleChanged(Cur, now)
             s2 == IF s1.visible THEN LoadWarnings(LoadRadarFrames(s1, now))
                   ELSE s1
         IN  Commit(s2, "mount")

\* The owner sets visible = true.
Show ==
    /\ mounted /\ ~visible /\ loads < MaxLoads
    /\ UNCHANGED mounted
    /\ \E now \in NowValues :
         Commit(VisibleChanged([Cur EXCEPT !.visible = TRUE], now), "show")

\* The owner sets visible = false.
Hide ==
    /\ mounted /\ visible
    /\ UNCHANGED mounted
    /\ Commit(VisibleChanged([Cur EXCEPT !.visible = FALSE], 0), "hide")

\* refresh()
Refresh ==
    /\ mounted /\ loads < MaxLoads
    /\ UNCHANGED mounted
    /\ \E now \in NowValues :
         Commit(Dispatch(LoadRadarFrames(Cur, now), [type |-> "refreshed"]),
                "refresh")

\* toggleAnimation()
ToggleAnimation ==
    /\ mounted
    /\ UNCHANGED mounted
    /\ Commit(ToggleAnimationBody(Cur), "toggleAnimation")

\* A next index that steps backward.
NextIndexBackward(index, n) == IF n = 0 THEN 0 ELSE (index + n - 1) % n

\* (currentFrameIndex + 1) % radarFrames.length; on length 0 the result is
\* NaN, with which showFrame returns at once, as it does with any index.
NextIndex(index, n) == IF n = 0 THEN 0 ELSE (index + 1) % n

\* The setInterval callback of startAnimation, lines 221-225.
TimerTick ==
    /\ timers > 0
    /\ UNCHANGED mounted
    /\ Commit(ShowFrame(Cur, NextIndex(currentFrameIndex, Len(radarFrames))),
              "tick")

\* The browser runs the oldest pending animation-frame callback.
AnimationFrame ==
    /\ rafQueue # <<>>
    /\ UNCHANGED mounted
    /\ Commit(Animate([Cur EXCEPT !.rafQueue = Tail(@)], Head(rafQueue)), "animate")

\* A tileerror handler that reports the failure as the loads do.
OnTileErrorSurfaced(s) ==
    Dispatch([s EXCEPT !.errorMessage = RadarMessage],
             [type |-> "error", source |-> "radar"])

\* The tileerror handler of a radar layer, lines 142-146: console.warn.
OnTileError(s) == s

\* A tile of a radar layer on the map fails to load.
TileError ==
    /\ mapLayers # {}
    /\ UNCHANGED mounted
    /\ Commit(OnTileError(Cur), "tileerror")

\* Time passes: Date.now() - startTime grows for every running transition.
AdvanceTime ==
    /\ \E k \in 1..Len(rafQueue) : rafQueue[k].elapsed < StepsPerTransition
    /\ UNCHANGED mounted
    /\ Commit([Cur EXCEPT !.rafQueue =
                 [k \in 1..Len(rafQueue) |->
                    [rafQueue[k] EXCEPT !.elapsed = Min(@ + 1, StepsPerTransition)]]],
              "time")

\* The hazard fetch of a suspended loadRadarFrames settles.
LoadFetchSettled ==
    /\ UNCHANGED mounted
    /\ \E g \in pendingLoads : \E ok \in BOOLEAN :
         Commit(LoadContinuation(Cur, g, ok), "loadSettled")

\* The hazard fetch of a suspended loadWarnings settles.
WarningsFetchSettled ==
    /\ pendingWarnings > 0
    /\ UNCHANGED mounted
    /\ \E ok \in BOOLEAN :
         Commit(LoadWarningsContinuation(Cur, ok), "warningsSettled")

-----------------------------------------------------------------------------
(* Cache service (src/unnamed/part_002, lines 182-457): the api tier.  An  *)
(* entry is the response cacheApiResponse builds: a body                   *)
(* {data, timestamp}, the X-Cache-Timestamp header, and the size of the    *)
(* body.  The steps of the service interleave at its awaits; between       *)
(* cache.put and trimCache other calls may run.                            *)

Urls == {"alerts", "points"}
Payloads == {"p1", "p2"}

\* The instants at which the service is called (minutes).
Instants == {0, 1, 2, 30, 31, 32}

\* maxAge arguments of getCachedApiResponse: the default and a shorter one.
MaxAges == {MAX_API_CACHE_AGE, 1}

\* blob.size of the body that wraps a payload, in megabytes.
SizeOf(payload) == IF payload = "p1" THEN 1 ELSE IF payload = "p2" THEN 2 ELSE 5

\* new Response(JSON.stringify({data, timestamp: Date.now()}),
\*              {headers: {'X-Cache-Timestamp': Date.now().toString()}})
\* `at` records when the entry was put; the code keeps no such field.
CachedResponse(url, data, now) ==
    [url |-> url,
     body |-> [wrapped |-> TRUE, data |-> data, timestamp |-> now],
     stamped |-> TRUE, header |-> now, size |-> SizeOf(data), at |-> now]

\* networkResponse.clone() as the service worker and cacheMapTiles put it:
\* the body as the server sent it and no X-Cache-Timestamp header
\* (`stamped` tells whether the response has one).
NetworkResponse(url, payload, size, now) ==
    [url |-> url,
     body |-> [wrapped |-> FALSE, data |-> payload, timestamp |-> 0],
     stamped |-> FALSE, header |-> 0, size |-> size, at |-> now]

\* cachedResponse.json(): only the body cacheApiResponse wrote has the
\* properties `data` and `timestamp`; in any other body both are undefined
\* (`isNaN` then tells that Date.now() - timestamp is NaN).
Json(body) ==
    IF body.wrapped
    THEN [data |-> body.data, timestamp |-> body.timestamp, isNaN |-> FALSE]
    ELSE [data |-> UNDEFINED, timestamp |-> 0, isNaN |-> TRUE]

\* response.headers.get('X-Cache-Timestamp') || 0, line 408
HeaderTimestamp(e) == IF e.stamped THEN e.header ELSE 0

\* cache.match(url): the index of the entry of that key, 0 if there is none.
Match(tier, url) ==
    IF \E k \in 1..Len(tier) : tier[k].url = url
    THEN CHOOSE k \in 1..Len(tier) : tier[k].url = url
    ELSE 0

\* cache.delete(request)
Delete(tier, url) == SelectSeq(tier, LAMBDA e : e.url # url)

\* cache.put(url, response): the entry replaces one of the same key.
Put(tier, entry) == Append(Delete(tier, entry.url), entry)

RECURSIVE TotalSize(_)
TotalSize(tier) == IF tier = <<>> THEN 0 ELSE Head(tier).size + TotalSize(Tail(tier))

\* The loop of trimCache, lines 421-430: the entries in the order of their
\* header timestamps, oldest first, deleted until sizeToRemove is used up.
RECURSIVE RemoveOldest(_, _)
RemoveOldest(tier, sizeToRemove) ==
    IF sizeToRemove <= 0 \/ tier = <<>> THEN tier
    ELSE LET oldest == CHOOSE k \in 1..Len(tier) :
                          \A j \in 1..Len(tier) :
                              \/ HeaderTimestamp(tier[k]) < HeaderTimestamp(tier[j])
                              \/ /\ HeaderTimestamp(tier[k]) = HeaderTimestamp(tier[j])
                                 /\ k <= j
         IN  RemoveOldest(Delete(tier, tier[oldest].url),
                          sizeToRemove - tier[oldest].size)

\* trimCache(cacheName, maxSize)
TrimCache(tier, maxSize) ==
    IF Len(tier) <= TrimThreshold THEN tier
    ELSE IF TotalSize(tier) <= maxSize THEN tier
    ELSE RemoveOldest(tier, TotalSize(tier) - maxSize)

TierNames == {"tiles", "api", "static"}

\* An answer without body, and the entry of a request that has none yet.
NoBody == [wrapped |-> FALSE, data |-> NULL, timestamp |-> 0]
NoEntry == [url |-> NULL, body |-> NoBody, stamped |-> FALSE, header |-> 0,
            size |-> 0, at |-> 0]
NoResult == [op |-> "none", url |-> NULL, maxAge |-> 0, value |-> NULL]
NotClearing == [running |-> FALSE, pending |-> {}]
NoResponse == [url |-> NULL, branch |-> "none", from |-> "none", body |-> NoBody,
               fetched |-> FALSE]

InitCache ==
    /\ apiTier = <<>>
    /\ mapTier = <<>>
    /\ staticTier = <<>>
    /\ otherCaches = {}
    /\ epoch = [n \in TierNames |-> 0]
    /\ inFlight = {}
    /\ swResponse = NoResponse
    /\ clearing = NotClearing
    /\ clears = 0
    /\ tileTrimsPending = 0
    /\ time = 0
    /\ trimsPending = 0
    /\ stored = [u \in Urls |-> [payload |-> NULL, at |-> 0]]
    /\ result = NoResult
    /\ cacheOp = "init"

\* cacheApiResponse(url, response) up to `await cache.put`, lines 263-283;
\* `data` is what response.json() gives.
CacheApiResponse ==
    /\ trimsPending < MaxConcurrentPuts
    /\ \E url \in Urls : \E data \in Payloads :
         /\ apiTier' = Put(apiTier, CachedResponse(url, data, time))
         /\ stored' = [stored EXCEPT ![url] = [payload |-> data, at |-> time]]
         /\ result' = [op |-> "put", url |-> url, maxAge |-> 0, value |-> data]
    /\ trimsPending' = trimsPending + 1
    /\ cacheOp' = "put"
    /\ swResponse' = NoResponse
    /\ UNCHANGED <<time, workerVars, overlayVars, storeVars>>

\* cacheApiResponse after the put, lines 285-288: trimCache, return true.
CacheApiResponseTrim ==
    /\ trimsPending > 0
    /\ apiTier' = TrimCache(apiTier, MAX_API_CACHE_SIZE)
    /\ trimsPending' = trimsPending - 1
    /\ cacheOp' = "trim"
    /\ result' = NoResult
    /\ swResponse' = NoResponse
    /\ UNCHANGED <<time, stored, workerVars, overlayVars, storeVars>>

\* A read that takes every entry for fresh.
ReadIgnoringAge(tier, url, maxAge, now) ==
    LET k == Match(tier, url)
    IN  IF k = 0 THEN NULL ELSE tier[k].body.data

\* getCachedApiResponse(url, maxAge), lines 301-326: what it returns.
Read(tier, url, maxAge, now) ==
    LET k == Match(tier, url)
    IN  IF k = 0 THEN NULL
        ELSE LET cachedData == Json(tier[k].body)
             IN  IF /\ ~cachedData.isNaN
                    /\ now - cachedData.timestamp > maxAge
                 THEN NULL
                 ELSE cachedData.data

\* A read that deletes the entry it finds too old.
GetCachedApiResponseEvicting ==
    /\ \E url \in Urls : \E maxAge \in MaxAges :
         /\ result' = [op |-> "get", url |-> url, maxAge |-> maxAge,
                       value |-> Read(apiTier, url, maxAge, time)]
         /\ apiTier' = IF /\ Match(apiTier, url) # 0
                          /\ Read(apiTier, url, maxAge, time) = NULL
                       THEN Delete(apiTier, url) ELSE apiTier
    /\ cacheOp' = "get"
    /\ swResponse' = NoResponse
    /\ UNCHANGED <<time, trimsPending, stored, workerVars, overlayVars, storeVars>>

GetCachedApiResponse ==
    /\ \E url \in Urls : \E maxAge \in MaxAges :
         result' = [op |-> "get", url |-> url, maxAge |-> maxAge,
                    value |-> Read(apiTier, url, maxAge, time)]
    /\ cacheOp' = "get"
    /\ swResponse' = NoResponse
    /\ UNCHANGED <<apiTier, time, trimsPending, stored, workerVars, overlayVars, storeVars>>

\* Time passes to a later instant.
AdvanceClock ==
    /\ \E t \in Instants : t > time /\ time' = t
    /\ cacheOp' = "clock"
    /\ result' = NoResult
    /\ swResponse' = NoResponse
    /\ UNCHANGED <<apiTier, trimsPending, stored, workerVars, overlayVars, storeVars>>

\* The responses a writer without timestamp header puts for `urls`.
RECURSIVE Fetched(_, _, _)
Fetched(urls, payload, now) ==
    IF urls = <<>> THEN <<>>
    ELSE <<NetworkResponse(Head(urls), payload, SizeOf(payload), now)>>
         \o Fetched(Tail(urls), payload, now)

\* cache.put of each entry in turn.
RECURSIVE PutAll(_, _)
PutAll(tier, entries) ==
    IF entries = <<>> THEN tier
    ELSE PutAll(Put(tier, Head(entries)), Tail(entries))

\* The keys of a tier.
Keys(tier) == {tier[k].url : k \in 1..Len(tier)}

-----------------------------------------------------------------------------
(* cacheMapTiles and clearAllCaches (src/unnamed/part_002, lines 222-255   *)
(* and 440-457)                                                            *)

\* The url arrays cacheMapTiles is called with.
TileBatches == {<<"osm/12">>, <<"osm/1", "osm/12">>}

Responses(urls, ok, now) ==
    Fetched(SelectSeq(urls, LAMBDA u : u \in ok), "tile", now)

\* cacheMapTiles(urls) up to the end of its batches, lines 222-245: every
\* url is fetched and the responses with response.ok are put, here in the
\* order of the array; `ok` are the urls whose fetch gave such a response.
CacheMapTiles ==
    /\ tileTrimsPending < MaxConcurrentPuts
    /\ \E urls \in TileBatches :
         \E ok \in SUBSET {urls[k] : k \in 1..Len(urls)} :
           /\ mapTier' = PutAll(mapTier, Responses(urls, ok, time))
           /\ result' = [op |-> "cacheMapTiles", url |-> NULL, maxAge |-> 0,
                         value |-> Cardinality(ok)]
    /\ tileTrimsPending' = tileTrimsPending + 1
    /\ cacheOp' = "tilesPut"
    /\ swResponse' = NoResponse
    /\ UNCHANGED <<apiTier, staticTier, otherCaches, epoch, inFlight,
                   clearing, clears, time, trimsPending, stored,
                   overlayVars, storeVars>>

\* cacheMapTiles from line 248: trimCache, return successCount.
CacheMapTilesTrim ==
    /\ tileTrimsPending > 0
    /\ mapTier' = TrimCache(mapTier, MAX_MAP_CACHE_SIZE)
    /\ tileTrimsPending' = tileTrimsPending - 1
    /\ cacheOp' = "tilesTrim"
    /\ swResponse' = NoResponse
    /\ result' = NoResult
    /\ UNCHANGED <<apiTier, staticTier, otherCaches, epoch, inFlight,
                   clearing, clears, time, trimsPending, stored,
                   overlayVars, storeVars>>

\* clearAllCaches(), lines 440-449: the three caches.delete are started.
ClearAllCaches ==
    /\ ~clearing.running
    /\ clears < MaxClears
    /\ clearing' = [running |-> TRUE, pending |-> TierNames]
    /\ clears' = clears + 1
    /\ cacheOp' = "clearStart"
    /\ swResponse' = NoResponse
    /\ result' = NoResult
    /\ UNCHANGED <<apiTier, mapTier, staticTier, otherCaches, epoch, inFlight,
                   time, trimsPending, tileTrimsPending, stored,
                   overlayVars, storeVars>>

\* A delete that spares the static assets.
CacheDeletedKeepsStatic ==
    /\ \E name \in clearing.pending :
         /\ clearing' = [clearing EXCEPT !.pending = @ \ {name}]
         /\ epoch' = [epoch EXCEPT ![name] = @ + 1]
         /\ mapTier' = IF name = "tiles" THEN <<>> ELSE mapTier
         /\ apiTier' = IF name = "api" THEN <<>> ELSE apiTier
         /\ UNCHANGED staticTier
    /\ cacheOp' = "clearDelete"
    /\ swResponse' = NoResponse
    /\ result' = NoResult
    /\ UNCHANGED <<otherCaches, inFlight, clears, time,
                   trimsPending, tileTrimsPending, stored, overlayVars, storeVars>>

\* One caches.delete(name) is carried out: the name no longer leads to the
\* cache, and a later caches.open(name) makes an empty one.
CacheDeleted ==
    /\ \E name \in clearing.pending :
         /\ clearing' = [clearing EXCEPT !.pending = @ \ {name}]
         /\ epoch' = [epoch EXCEPT ![name] = @ + 1]
         /\ mapTier' = IF name = "tiles" THEN <<>> ELSE mapTier
         /\ apiTier' = IF name = "api" THEN <<>> ELSE apiTier
         /\ staticTier' = IF name = "static" THEN <<>> ELSE staticTier
    /\ cacheOp' = "clearDelete"
    /\ swResponse' = NoResponse
    /\ result' = NoResult
    /\ UNCHANGED <<otherCaches, inFlight, clears, time,
                   trimsPending, tileTrimsPending, stored, overlayVars, storeVars>>

\* Promise.all has resolved, line 451: return true.
ClearAllCachesReturn ==
    /\ clearing.running
    /\ clearing.pending = {}
    /\ clearing' = NotClearing
    /\ result' = [op |-> "clearAllCaches", url |-> NULL, maxAge |-> 0,
                  value |-> TRUE]
    /\ cacheOp' = "clearReturn"
    /\ swResponse' = NoResponse
    /\ UNCHANGED <<apiTier, mapTier, staticTier, otherCaches, epoch, inFlight,
                   clears, time, trimsPending, tileTrimsPending,
                   stored, overlayVars, storeVars>>

-----------------------------------------------------------------------------
(* Service worker (src/unnamed/part_004).  A request is its url (the cache *)
(* key), the host and the pathname of the url, its method and whether its  *)
(* accept header names text/html.                                          *)

STATIC_ASSETS == <<"/", "/index.html", "/main.js", "/app.css", "/vite.svg",
                   "/favicon.ico">>

Origin == "origin"

Requests ==
    { [url |-> "osm/1", host |-> "a.tile.openstreetmap.org",
       path |-> "/1/1/1.png", method |-> "GET", html |-> FALSE],
      [url |-> "radar/11", host |-> "opengeo.ncep.noaa.gov",
       path |-> "/geoserver/conus/conus_bref_qcd/ows", method |-> "GET",
       html |-> FALSE],
      [url |-> "alerts", host |-> "api.weather.gov",
       path |-> "/alerts/active", method |-> "GET", html |-> FALSE],
      [url |-> "/index.html", host |-> Origin, path |-> "/index.html",
       method |-> "GET", html |-> TRUE],
      [url |-> "/about", host |-> Origin, path |-> "/about",
       method |-> "GET", html |-> TRUE],
      [url |-> "/report", host |-> Origin, path |-> "/report",
       method |-> "POST", html |-> FALSE] }

\* url.includes(s), for the hosts the service worker looks for: the host
\* of the url ends in s.
Includes(r, s) ==
    \/ r.host = s
    \/ (s = "tile.openstreetmap.org" /\ r.host = "a.tile.openstreetmap.org")

isMapTile(r) == Includes(r, "tile.openstreetmap.org")

\* A test that knows the alert feed only.
isWeatherApiAlertsOnly(r) == Includes(r, "api.weather.gov")

isWeatherApi(r) ==
    Includes(r, "api.weather.gov") \/ Includes(r, "opengeo.ncep.noaa.gov")

isStaticAsset(r) ==
    \E k \in 1..Len(STATIC_ASSETS) : r.path = STATIC_ASSETS[k]

\* The branch of the fetch handler that takes the request, lines 79-176.
Branch(r) ==
    IF r.method # "GET" THEN "none"
    ELSE IF isMapTile(r) THEN "tiles"
    ELSE IF isWeatherApi(r) THEN "api"
    ELSE IF isStaticAsset(r) THEN "static"
    ELSE "default"

\* The cache of a name, as caches.open gives it.
Tier(name) ==
    IF name = "tiles" THEN mapTier
    ELSE IF name = "api" THEN apiTier
    ELSE staticTier

\* What the service worker answers, and in which branch of the handler.
Answer(r, from, body, network) ==
    [url |-> r.url, branch |-> Branch(r), from |-> from, body |-> body,
     fetched |-> network]

\* A fetch event whose static branch asks the network before its cache.
FetchEventRevalidating(requests) ==
    /\ Cardinality(inFlight) < MaxInFlight
    /\ \E r \in requests :
         LET b == Branch(r)
             k == IF b = "tiles" THEN Match(Tier(b), r.url) ELSE 0
         IN  /\ \A q \in inFlight : q.req.url # r.url
             /\ IF b = "none"
                THEN /\ swResponse' = Answer(r, "unhandled", NoBody, FALSE)
                     /\ UNCHANGED inFlight
                ELSE IF k # 0
                THEN /\ swResponse' = Answer(r, "cache", Tier(b)[k].body, FALSE)
                     /\ UNCHANGED inFlight
                ELSE /\ swResponse' = Answer(r, "pending", NoBody, TRUE)
                     /\ inFlight' = inFlight \cup
                          {[req |-> r, branch |-> b, stage |-> "fetch",
                            handle |-> IF b \in {"tiles", "static"}
                                       THEN epoch[b] ELSE 0,
                            entry |-> NoEntry]}
    /\ cacheOp' = "swEvent"
    /\ result' = NoResult
    /\ UNCHANGED <<apiTier, mapTier, staticTier, otherCaches, epoch, clearing,
                   clears, time, trimsPending, tileTrimsPending, stored,
                   overlayVars, storeVars>>

\* A fetch event, up to the first fetch(event.request) or to the answer.
\* The tile and the static branch open their cache and match first; the
\* open cache stays with the request (`handle`).
FetchEvent(requests) ==
    /\ Cardinality(inFlight) < MaxInFlight
    /\ \E r \in requests :
         LET b == Branch(r)
             k == IF b \in {"tiles", "static"} THEN Match(Tier(b), r.url) ELSE 0
         IN  /\ \A q \in inFlight : q.req.url # r.url
             /\ IF b = "none"
                THEN /\ swResponse' = Answer(r, "unhandled", NoBody, FALSE)
                     /\ UNCHANGED inFlight
                ELSE IF k # 0
                THEN /\ swResponse' = Answer(r, "cache", Tier(b)[k].body, FALSE)
                     /\ UNCHANGED inFlight
                ELSE /\ swResponse' = Answer(r, "pending", NoBody, TRUE)
                     /\ inFlight' = inFlight \cup
                          {[req |-> r, branch |-> b, stage |-> "fetch",
                            handle |-> IF b \in {"tiles", "static"}
                                       THEN epoch[b] ELSE 0,
                            entry |-> NoEntry]}
    /\ cacheOp' = "swEvent"
    /\ result' = NoResult
    /\ UNCHANGED <<apiTier, mapTier, staticTier, otherCaches, epoch, clearing,
                   clears, time, trimsPending, tileTrimsPending, stored,
                   overlayVars, storeVars>>

\* A fetch event for any request of the page.
WorkerFetchEvent == FetchEvent(Requests)

\* A fetch event for a base-map tile.
WorkerTileFetchEvent == FetchEvent({r \in Requests : Branch(r) = "tiles"})

\* A fetch event for a request to the weather hosts.
WorkerApiFetchEvent == FetchEvent({r \in Requests : Branch(r) = "api"})

\* A fetch event for a static asset.
WorkerStaticFetchEvent == FetchEvent({r \in Requests : Branch(r) = "static"})

\* caches.match(request) of the default branch, line 182: the caches of the
\* origin are searched; `fallback` is the key tried.
MatchAny(url) ==
    IF Match(staticTier, url) # 0 THEN staticTier[Match(staticTier, url)].body
    ELSE IF Match(mapTier, url) # 0 THEN mapTier[Match(mapTier, url)].body
    ELSE IF Match(apiTier, url) # 0 THEN apiTier[Match(apiTier, url)].body
    ELSE NoBody

InAnyCache(url) == url \in Keys(staticTier) \cup Keys(mapTier) \cup Keys(apiTier)

\* A handling of failures in which the tile branch has no catch.
OnFetchFailedRejecting(q) ==
    IF q.branch = "tiles"
    THEN Answer(q.req, "networkError", NoBody, TRUE)
    ELSE IF q.branch = "api"
    THEN IF Match(apiTier, q.req.url) # 0
         THEN Answer(q.req, "cache", apiTier[Match(apiTier, q.req.url)].body, TRUE)
         ELSE Answer(q.req, "offlineError", NoBody, TRUE)
    ELSE IF q.branch = "static"
    THEN Answer(q.req, "networkError", NoBody, TRUE)
    ELSE IF InAnyCache(q.req.url)
    THEN Answer(q.req, "cache", MatchAny(q.req.url), TRUE)
    ELSE IF q.req.html
    THEN IF InAnyCache("/index.html")
         THEN Answer(q.req, "cache", MatchAny("/index.html"), TRUE)
         ELSE Answer(q.req, "networkError", NoBody, TRUE)
    ELSE Answer(q.req, "unavailable", NoBody, TRUE)

\* The answer of a branch when its fetch has failed.
OnFetchFailed(q) ==
    IF q.branch = "tiles"
    THEN Answer(q.req, "placeholder", NoBody, TRUE)
    ELSE IF q.branch = "api"
    THEN IF Match(apiTier, q.req.url) # 0
         THEN Answer(q.req, "cache", apiTier[Match(apiTier, q.req.url)].body, TRUE)
         ELSE Answer(q.req, "offlineError", NoBody, TRUE)
    ELSE IF q.branch = "static"
    THEN Answer(q.req, "networkError", NoBody, TRUE)
    ELSE IF InAnyCache(q.req.url)
    THEN Answer(q.req, "cache", MatchAny(q.req.url), TRUE)
    ELSE IF q.req.html
    THEN IF InAnyCache("/index.html")
         THEN Answer(q.req, "cache", MatchAny("/index.html"), TRUE)
         ELSE Answer(q.req, "networkError", NoBody, TRUE)
    ELSE Answer(q.req, "unavailable", NoBody, TRUE)

\* The fetch of a request settles.  With a response the three caching
\* branches start cache.put of its clone and answer with it; the put is not
\* awaited.
FetchSettled(payloads) ==
    /\ \E q \in inFlight :
         /\ q.stage = "fetch"
         /\ \/ \E payload \in payloads :
                 LET e == NetworkResponse(q.req.url, payload, SizeOf(payload), time)
                 IN  /\ swResponse' = Answer(q.req, "network", e.body, TRUE)
                     /\ inFlight' =
                          IF q.branch = "default" THEN inFlight \ {q}
                          ELSE (inFlight \ {q}) \cup
                                 {[q EXCEPT !.stage = "put", !.entry = e]}
            \/ /\ swResponse' = OnFetchFailed(q)
               /\ inFlight' = inFlight \ {q}
    /\ cacheOp' = "swSettled"
    /\ result' = NoResult
    /\ UNCHANGED <<apiTier, mapTier, staticTier, otherCaches, epoch, clearing,
                   clears, time, trimsPending, tileTrimsPending, stored,
                   overlayVars, storeVars>>

\* The server answers with any payload.
WorkerFetchSettled == FetchSettled(Payloads)

\* The body of a response with a non-success status (404, 500): fetch
\* resolves with it as with any response, and the handler does not look at
\* response.ok or response.status (lines 96-99, 118-125, 164-167).
ErrorBody == "error page"

\* The server answers with any payload or with a non-success status.
WorkerFetchSettledAnyStatus == FetchSettled(Payloads \cup {ErrorBody})

\* The server answers with one payload.
WorkerApiFetchSettled == FetchSettled({"p1"})

\* A cache.put of the service worker is carried out.  The api branch opens
\* its cache only now (line 120); the other two write to the cache they
\* opened before the fetch, which a caches.delete since then has detached
\* from its name.
WorkerPutDone ==
    /\ \E q \in inFlight :
         /\ q.stage = "put"
         /\ inFlight' = inFlight \ {q}
         /\ LET attached == q.branch = "api" \/ q.handle = epoch[q.branch]
                put(name, tier) ==
                    IF q.branch = name /\ attached THEN Put(tier, q.entry) ELSE tier
            IN  /\ mapTier' = put("tiles", mapTier)
                /\ apiTier' = put("api", apiTier)
                /\ staticTier' = put("static", staticTier)
    /\ cacheOp' = "swPut"
    /\ swResponse' = NoResponse
    /\ result' = NoResult
    /\ UNCHANGED <<otherCaches, epoch, clearing, clears, time,
                   trimsPending, tileTrimsPending, stored, overlayVars, storeVars>>

\* A fetch event while the Cache Storage fails: caches.open or cache.match
\* rejects.  The tile and the static branch have no handler for that (their
\* only catch follows fetch, lines 101-107), so the promise given to
\* respondWith rejects and the request fails without a fetch; the weather
\* and the default branch fetch before they touch a cache.
FetchEventStorageFailed ==
    /\ Cardinality(inFlight) < MaxInFlight
    /\ \E r \in Requests :
         LET b == Branch(r)
         IN  /\ \A q \in inFlight : q.req.url # r.url
             /\ IF b = "none"
                THEN /\ swResponse' = Answer(r, "unhandled", NoBody, FALSE)
                     /\ UNCHANGED inFlight
                ELSE IF b \in {"tiles", "static"}
                THEN /\ swResponse' = Answer(r, "rejected", NoBody, FALSE)
                     /\ UNCHANGED inFlight
                ELSE /\ swResponse' = Answer(r, "pending", NoBody, TRUE)
                     /\ inFlight' = inFlight \cup
                          {[req |-> r, branch |-> b, stage |-> "fetch",
                            handle |-> 0, entry |-> NoEntry]}
    /\ cacheOp' = "swEventStorageFailed"
    /\ result' = NoResult
    /\ UNCHANGED <<apiTier, mapTier, staticTier, otherCaches, epoch, clearing,
                   clears, time, trimsPending, tileTrimsPending, stored,
                   overlayVars, storeVars>>

\* The fetch of a request fails while the Cache Storage fails: the catch
\* of the tile branch needs no cache, the fallbacks of the weather and the
\* default branch reject with it (lines 127-147, 180-198), the static
\* branch rejects anyway.
FetchFailedStorageFailed ==
    /\ \E q \in inFlight :
         /\ q.stage = "fetch"
         /\ swResponse' = IF q.branch = "tiles" THEN OnFetchFailed(q)
                          ELSE Answer(q.req, "rejected", NoBody, TRUE)
         /\ inFlight' = inFlight \ {q}
    /\ cacheOp' = "swSettledStorageFailed"
    /\ result' = NoResult
    /\ UNCHANGED <<apiTier, mapTier, staticTier, otherCaches, epoch, clearing,
                   clears, time, trimsPending, tileTrimsPending, stored,
                   overlayVars, storeVars>>

\* A cache.put (or the caches.open before it, line 120) of the service
\* worker rejects: nothing is stored; the response has been returned
\* already.
WorkerPutFailed ==
    /\ \E q \in inFlight :
         /\ q.stage = "put"
         /\ inFlight' = inFlight \ {q}
    /\ cacheOp' = "swPutFailed"
    /\ swResponse' = NoResponse
    /\ result' = NoResult
    /\ UNCHANGED <<apiTier, mapTier, staticTier, otherCaches, epoch, clearing,
                   clears, time, trimsPending, tileTrimsPending, stored,
                   overlayVars, storeVars>>

\* getCachedApiResponse while the Cache Storage fails: the catch returns
\* null, lines 322-325.
GetCachedApiResponseStorageFailed ==
    /\ \E url \in Urls : \E maxAge \in MaxAges :
         result' = [op |-> "getStorageFailed", url |-> url, maxAge |-> maxAge,
                    value |-> NULL]
    /\ cacheOp' = "getStorageFailed"
    /\ swResponse' = NoResponse
    /\ UNCHANGED <<apiTier, time, trimsPending, stored, workerVars, overlayVars, storeVars>>

\* The request of the alert feed, weatherStore.js line 115 and
\* weatherService.js line 39.
AlertsRequest == CHOOSE r \in Requests : r.url = "alerts"

\* if (cachedAlerts), weatherStore.js line 118
Truthy(value) == value \notin {NULL, UNDEFINED}

\* loadWeatherAlerts(forceRefresh), weatherStore.js lines 92-134, up to the
\* alerts it takes from the api tier or to the fetch of getActiveAlerts
\* (weatherService.js line 41), which the service worker handles as a fetch
\* event of its weather branch.  `online` is navigator.onLine.  After the
\* fetch the alerts are stored by cacheApiResponse (line 128).
LoadWeatherAlerts ==
    /\ \E forceRefresh \in BOOLEAN : \E online \in BOOLEAN :
         LET cachedAlerts == Read(apiTier, AlertsRequest.url, MAX_API_CACHE_AGE, time)
         IN  IF ~forceRefresh /\ online /\ Truthy(cachedAlerts)
             THEN /\ result' = [op |-> "loadWeatherAlerts", url |-> AlertsRequest.url,
                                maxAge |-> MAX_API_CACHE_AGE, value |-> cachedAlerts]
                  /\ swResponse' = NoResponse
                  /\ UNCHANGED inFlight
             ELSE /\ Cardinality(inFlight) < MaxInFlight
                  /\ \A q \in inFlight : q.req.url # AlertsRequest.url
                  /\ result' = [op |-> "loadWeatherAlerts", url |-> AlertsRequest.url,
                                maxAge |-> MAX_API_CACHE_AGE, value |-> NULL]
                  /\ swResponse' = Answer(AlertsRequest, "pending", NoBody, TRUE)
                  /\ inFlight' = inFlight \cup
                       {[req |-> AlertsRequest, branch |-> Branch(AlertsRequest),
                         stage |-> "fetch", handle |-> 0, entry |-> NoEntry]}
    /\ cacheOp' = "loadAlerts"
    /\ UNCHANGED <<apiTier, mapTier, staticTier, otherCaches, epoch, clearing,
                   clears, time, trimsPending, tileTrimsPending, stored,
                   overlayVars, storeVars>>

\* install, lines 18-28: cache.addAll(STATIC_ASSETS) stores all of them or,
\* when one request fails, none.
Install ==
    /\ \E ok \in BOOLEAN :
         staticTier' = IF ok THEN PutAll(staticTier, Fetched(STATIC_ASSETS, "p1", time))
                       ELSE staticTier
    /\ cacheOp' = "install"
    /\ swResponse' = NoResponse
    /\ result' = NoResult
    /\ UNCHANGED <<apiTier, mapTier, otherCaches, epoch, inFlight, clearing, clears, time, trimsPending, tileTrimsPending,
                   stored, overlayVars, storeVars>>

\* An activate that deletes every cache of the origin.
ActivateDeletingAll ==
    /\ otherCaches' = {}
    /\ apiTier' = <<>>
    /\ mapTier' = <<>>
    /\ staticTier' = <<>>
    /\ cacheOp' = "activate"
    /\ swResponse' = NoResponse
    /\ result' = NoResult
    /\ UNCHANGED <<epoch, inFlight, clearing, clears, time, trimsPending,
                   tileTrimsPending, stored, overlayVars, storeVars>>

\* activate, lines 31-50: every cache whose name is not one of the three
\* current names is deleted.
Activate ==
    /\ otherCaches' = {n \in otherCaches : n \in TierNames}
    /\ cacheOp' = "activate"
    /\ swResponse' = NoResponse
    /\ result' = NoResult
    /\ UNCHANGED <<apiTier, mapTier, staticTier, epoch, inFlight, clearing, clears, time, trimsPending, tileTrimsPending,
                   stored, overlayVars, storeVars>>

-----------------------------------------------------------------------------
(* The weather store (weatherStore.js): its auto-refresh timer *)

MaxIntervals == 3           \* setInterval calls of the weather store in a run

\* `refreshInterval: null`, line 19; the handles setInterval returns are the
\* numbers from 1 on.
NoInterval == 0

\* The values toggleAutoRefresh is called with.
EnabledValues == {"true", "false", UNDEFINED}

\* initialState, lines 12-21: the two fields of the auto-refresh; no timer
\* has been set.
InitStore ==
    /\ autoRefresh = TRUE
    /\ refreshInterval = NoInterval
    /\ liveIntervals = {}
    /\ intervalsSet = 0
    /\ storeOp = "init"

\* The handle the next setInterval returns: a number the host has not
\* given out before, never 0.
NextHandle == intervalsSet + 1

\* loadWeatherAlerts(forceRefresh), lines 92-134, as the store's own functions
\* call it: without map bounds it returns at once (lines 101-103); with
\* bounds it reads the api tier or starts the fetch of getActiveAlerts, as in
\* LoadWeatherAlerts.  Its updates of the store spread `state` (lines
\* 105-109, 137-142, 146-150) and leave the timer's fields as they are.
StartLoadWeatherAlerts(forceRefresh) ==
    \E bounds \in BOOLEAN : \E online \in BOOLEAN :
      IF ~bounds
      THEN UNCHANGED cacheVars
      ELSE LET cachedAlerts == Read(apiTier, AlertsRequest.url, MAX_API_CACHE_AGE, time)
           IN  /\ IF ~forceRefresh /\ online /\ Truthy(cachedAlerts)
                  THEN /\ result' = [op |-> "loadWeatherAlerts",
                                     url |-> AlertsRequest.url,
                                     maxAge |-> MAX_API_CACHE_AGE,
                                     value |-> cachedAlerts]
                       /\ swResponse' = NoResponse
                       /\ UNCHANGED inFlight
                  ELSE /\ Cardinality(inFlight) < MaxInFlight
                       /\ \A q \in inFlight : q.req.url # AlertsRequest.url
                       /\ result' = [op |-> "loadWeatherAlerts",
                                     url |-> AlertsRequest.url,
                                     maxAge |-> MAX_API_CACHE_AGE, value |-> NULL]
                       /\ swResponse' = Answer(AlertsRequest, "pending", NoBody, TRUE)
                       /\ inFlight' = inFlight \cup
                            {[req |-> AlertsRequest, branch |-> Branch(AlertsRequest),
                              stage |-> "fetch", handle |-> 0, entry |-> NoEntry]}
               /\ cacheOp' = "loadAlerts"
               /\ UNCHANGED <<apiTier, mapTier, staticTier, otherCaches, epoch,
                              clearing, clears, time, trimsPending,
                              tileTrimsPending, stored>>

\* initWeatherStore(), lines 181-208: with autoRefresh it sets an interval
\* and stores its handle, whatever handle the store held; then the first
\* load.
InitWeatherStore ==
    /\ IF autoRefresh
       THEN /\ intervalsSet < MaxIntervals
            /\ liveIntervals' = liveIntervals \cup {NextHandle}
            /\ intervalsSet' = intervalsSet + 1
            /\ refreshInterval' = NextHandle
       ELSE UNCHANGED <<liveIntervals, intervalsSet, refreshInterval>>
    /\ UNCHANGED autoRefresh
    /\ storeOp' = "initWeatherStore"
    /\ StartLoadWeatherAlerts(FALSE)
    /\ UNCHANGED overlayVars

\* toggleAutoRefresh(enabled), lines 70-89.
ToggleAutoRefresh ==
    /\ \E enabled \in EnabledValues :
         LET clearOld == /\ refreshInterval # NoInterval
                         /\ \/ enabled = "false"
                            \/ enabled = UNDEFINED /\ autoRefresh
             setting == \/ enabled = "true"
                        \/ enabled = UNDEFINED /\ ~autoRefresh
             cleared == IF clearOld THEN liveIntervals \ {refreshInterval}
                        ELSE liveIntervals
         IN  /\ setting => intervalsSet < MaxIntervals
             /\ liveIntervals' = IF setting THEN cleared \cup {NextHandle}
                                 ELSE cleared
             /\ intervalsSet' = IF setting THEN intervalsSet + 1 ELSE intervalsSet
             /\ refreshInterval' = IF setting THEN NextHandle ELSE NoInterval
             /\ autoRefresh' = IF enabled # UNDEFINED THEN enabled = "true"
                               ELSE ~autoRefresh
    /\ storeOp' = "toggleAutoRefresh"
    /\ UNCHANGED <<overlayVars, cacheVars>>

\* The update of cleanupWeatherStore, lines 212-217.
Cleanup(live) == IF refreshInterval # NoInterval THEN live \ {refreshInterval} ELSE live

\* cleanupWeatherStore(), lines 211-218.
CleanupWeatherStore ==
    /\ liveIntervals' = Cleanup(liveIntervals)
    /\ refreshInterval' = NoInterval
    /\ storeOp' = "cleanupWeatherStore"
    /\ UNCHANGED <<autoRefresh, intervalsSet, overlayVars, cacheVars>>

\* resetWeather(), lines 221-224: cleanupWeatherStore(), then the store is
\* set to initialState.
ResetWeather ==
    /\ liveIntervals' = Cleanup(liveIntervals)
    /\ refreshInterval' = NoInterval
    /\ autoRefresh' = TRUE
    /\ storeOp' = "resetWeather"
    /\ UNCHANGED <<intervalsSet, overlayVars, cacheVars>>

\* A live interval timer fires: refreshWeather(), lines 154-156, which is
\* loadWeatherAlerts(true).
IntervalFires ==
    /\ liveIntervals # {}
    /\ storeOp' = "refreshWeather"
    /\ StartLoadWeatherAlerts(TRUE)
    /\ UNCHANGED <<autoRefresh, refreshInterval, liveIntervals, intervalsSet,
                   overlayVars>>

-----------------------------------------------------------------------------

\* The state after the script's declarations, lines 8-25, in a host whose
\* time zone is one of `zones`.
InitIn(zones, feeds) ==
    /\ mounted = FALSE
    /\ visible \in BOOLEAN
    /\ frameCount \in 0..MaxFrameCount
    /\ timeZone \in zones
    /\ features \in feeds
    /\ radarFrames = <<>>
    /\ currentFrameIndex = 0
    /\ animationInterval = NULL
    /\ timers = 0
    /\ isAnimating = FALSE
    /\ isTransitioning = FALSE
    /\ opacity = <<>>
    /\ mapLayers = {}
    /\ rafQueue = <<>>
    /\ pendingLoads = {}
    /\ pendingWarnings = 0
    /\ warningsByFrame = <<>>
    /\ warningsLayer = NoWarningsLayer
    /\ fetched = 0
    /\ response = "none"
    /\ clock = 0
    /\ loads = 0
    /\ dispatched = <<>>
    /\ errorMessage = NULL
    /\ lastOp = "init"
    /\ InitCache
    /\ InitStore

\* Playback is followed in a zone without transitions (nothing but the
\* frame timestamps depends on the zone) and with a feed without hazards;
\* the fetches of loadWarnings stay pending, their continuation writes
\* nothing but the warnings layer.
Init == InitIn({"fixed"}, {{}})

Next ==
    \/ Mount
    \/ Show
    \/ Hide
    \/ Refresh
    \/ ToggleAnimation
    \/ TimerTick
    \/ AnimationFrame
    \/ AdvanceTime
    \/ LoadFetchSettled

Spec == Init /\ [][Next]_vars

\* Playback of the smallest frame set that can cross-fade, in which the
\* browser keeps running the animation-frame callbacks it was asked for and
\* time keeps passing.  The hazard fetches stay pending.
InitFair == Init /\ frameCount = 2

NextFair ==
    \/ Mount
    \/ Show
    \/ Hide
    \/ Refresh
    \/ ToggleAnimation
    \/ TimerTick
    \/ AnimationFrame
    \/ AdvanceTime

SpecFair ==
    /\ InitFair
    /\ [][NextFair]_vars
    /\ WF_vars(AnimationFrame)
    /\ WF_vars(AdvanceTime)

\* The builds alone, in every zone.
InitBuild == InitIn(TimeZones, {{}})

NextBuild ==
    \/ Mount
    \/ Show
    \/ Hide
    \/ Refresh

SpecBuild == InitBuild /\ [][NextBuild]_vars

\* Playback with radar tiles that fail to load.
NextTileErrors ==
    \/ Mount
    \/ Show
    \/ Hide
    \/ Refresh
    \/ ToggleAnimation
    \/ TimerTick
    \/ AnimationFrame
    \/ AdvanceTime
    \/ LoadFetchSettled
    \/ TileError

SpecTileErrors == Init /\ [][NextTileErrors]_vars

\* The loads and their hazard fetches, with every feed.
InitHazards == InitIn({"fixed"}, SUBSET HazardUniverse)

NextHazards ==
    \/ Mount
    \/ Show
    \/ Hide
    \/ Refresh
    \/ LoadFetchSettled
    \/ WarningsFetchSettled

SpecHazards == InitHazards /\ [][NextHazards]_vars

\* The cache service alone, beside an overlay that is not mounted.
InitCacheService ==
    /\ InitIn({"fixed"}, {{}})
    /\ ~visible
    /\ frameCount = 0

NextCache ==
    \/ CacheApiResponse
    \/ CacheApiResponseTrim
    \/ GetCachedApiResponse
    \/ AdvanceClock

SpecCache == InitCacheService /\ [][NextCache]_vars

\* The caches outlive the page, so a run starts from what earlier puts have
\* left: radar images and base-map tiles the service worker stored, and an
\* entry of cacheApiResponse.
RadarKeys == <<"radar/1", "radar/2", "radar/3", "radar/4", "radar/5",
               "radar/6", "radar/7", "radar/8", "radar/9", "radar/10">>

TileKeys == <<"osm/1", "osm/2", "osm/3", "osm/4", "osm/5", "osm/6", "osm/7",
              "osm/8", "osm/9", "osm/10", "osm/11">>

ApiTierHistories ==
    { <<>>,
      PutAll(<<>>, Fetched(SubSeq(RadarKeys, 1, Len(RadarKeys) - 1), "p1", 0)),
      PutAll(Put(<<>>, CachedResponse("points", "p1", 1)),
             Fetched(RadarKeys, "p1", 2)) }

MapTierHistories ==
    { <<>>,
      PutAll(<<>>, Fetched(TileKeys, "p1", 0)),
      PutAll(<<>>, Fetched(TileKeys, "tile", 0)) }

\* The static cache before the first install and after an install of an
\* earlier run.
StaticTierHistories ==
    { <<>>,
      PutAll(<<>>, Fetched(STATIC_ASSETS, "p1", 0)) }

StartOfRun == 31

InitStored(apis, maps, statics) ==
    /\ mounted = FALSE
    /\ visible = FALSE
    /\ frameCount = 0
    /\ timeZone = "fixed"
    /\ features = {}
    /\ radarFrames = <<>>
    /\ currentFrameIndex = 0
    /\ animationInterval = NULL
    /\ timers = 0
    /\ isAnimating = FALSE
    /\ isTransitioning = FALSE
    /\ opacity = <<>>
    /\ mapLayers = {}
    /\ rafQueue = <<>>
    /\ pendingLoads = {}
    /\ pendingWarnings = 0
    /\ warningsByFrame = <<>>
    /\ warningsLayer = NoWarningsLayer
    /\ fetched = 0
    /\ response = "none"
    /\ clock = 0
    /\ loads = 0
    /\ dispatched = <<>>
    /\ errorMessage = NULL
    /\ lastOp = "init"
    /\ apiTier \in apis
    /\ mapTier \in maps
    /\ staticTier \in statics
    /\ otherCaches = {"radar-map-cache-v1"}
    /\ epoch = [n \in TierNames |-> 0]
    /\ inFlight = {}
    /\ swResponse = NoResponse
    /\ clearing = NotClearing
    /\ clears = 0
    /\ time = StartOfRun
    /\ trimsPending = 0
    /\ tileTrimsPending = 0
    /\ stored = [u \in Urls |->
                   IF Match(apiTier, u) # 0 /\ apiTier[Match(apiTier, u)].body.wrapped
                   THEN [payload |-> apiTier[Match(apiTier, u)].body.data,
                         at |-> apiTier[Match(apiTier, u)].at]
                   ELSE [payload |-> NULL, at |-> 0]]
    /\ result = NoResult
    /\ cacheOp = "init"
    /\ InitStore

\* The api tier and its two writers, cacheApiResponse and the service
\* worker, with the reads and the passing of time.
InitTiers == InitStored(ApiTierHistories, {<<>>}, {<<>>})

NextTiers ==
    \/ CacheApiResponse
    \/ CacheApiResponseTrim
    \/ GetCachedApiResponse
    \/ AdvanceClock
    \/ WorkerApiFetchEvent
    \/ WorkerApiFetchSettled
    \/ WorkerPutDone
    \/ LoadWeatherAlerts

SpecTiers == InitTiers /\ [][NextTiers]_vars

\* The tile tier and its two writers, cacheMapTiles and the service worker.
InitTiles == InitStored({<<>>}, MapTierHistories, {<<>>})

NextTiles ==
    \/ CacheMapTiles
    \/ CacheMapTilesTrim
    \/ WorkerTileFetchEvent
    \/ WorkerFetchSettled
    \/ WorkerPutDone
    \/ AdvanceClock

SpecTiles == InitTiles /\ [][NextTiles]_vars

\* The static cache and its two writers, install and the fetch handler,
\* with clearAllCaches and the passing of time.
InitStatic == InitStored({<<>>}, {<<>>}, StaticTierHistories)

NextStatic ==
    \/ Install
    \/ WorkerStaticFetchEvent
    \/ WorkerFetchSettled
    \/ WorkerPutDone
    \/ AdvanceClock
    \/ ClearAllCaches
    \/ CacheDeleted
    \/ ClearAllCachesReturn

SpecStatic == InitStatic /\ [][NextStatic]_vars

\* The service worker and the api reads with a Cache Storage that works
\* at some calls and fails at others.
InitFailures ==
    InitStored({<<>>}, {<<>>, PutAll(<<>>, Fetched(TileKeys, "p1", 0))},
               StaticTierHistories)

NextFailures ==
    \/ WorkerFetchEvent
    \/ FetchEventStorageFailed
    \/ WorkerFetchSettled
    \/ FetchFailedStorageFailed
    \/ WorkerPutDone
    \/ WorkerPutFailed
    \/ GetCachedApiResponse
    \/ GetCachedApiResponseStorageFailed

SpecFailures == InitFailures /\ [][NextFailures]_vars

\* The service worker with a server that answers some requests with a
\* non-success status.
InitStatus == InitStored({<<>>}, {<<>>}, {<<>>})

NextStatus ==
    \/ WorkerFetchEvent
    \/ WorkerFetchSettledAnyStatus
    \/ WorkerPutDone

SpecStatus == InitStatus /\ [][NextStatus]_vars

\* The service worker with every kind of request, next to clearAllCaches,
\* at one instant.
InitWorker ==
    InitStored({<<>>}, {<<>>, PutAll(<<>>, Fetched(TileKeys, "p1", 0))}, {<<>>})

NextWorker ==
    \/ Install
    \/ Activate
    \/ WorkerFetchEvent
    \/ WorkerFetchSettled
    \/ WorkerPutDone
    \/ ClearAllCaches
    \/ CacheDeleted
    \/ ClearAllCachesReturn

SpecWorker == InitWorker /\ [][NextWorker]_vars

-----------------------------------------------------------------------------
(* The claims *)

FrameLayers == {radarFrames[k].layer : k \in 1..Len(radarFrames)}

BuildOps == {"mount", "show", "refresh"}

\* C1: whenever the frame set is non-empty and no transition is in progress,
\* exactly one frame has the visible opacity and every other frame has
\* opacity 0.
C1_IdleExactlyOneVisible ==
    (Len(radarFrames) > 0 /\ ~isTransitioning) =>
        \E k \in 1..Len(radarFrames) :
            /\ opacity[radarFrames[k].layer] = OpacityVisible
            /\ \A j \in 1..Len(radarFrames) :
                 j # k => opacity[radarFrames[j].layer] = 0

\* C2: the radar layers on the map are exactly the layers of the current
\* frame set, so no layer of an earlier frame set stays on the map.
C2_MapHoldsCurrentFramesOnly == mapLayers = FrameLayers

\* A second frame set is on the map after a refresh replaced the first.
C2_Witness ==
    /\ lastOp = "refresh"
    /\ loads >= 2
    /\ Len(radarFrames) = MaxFrameCount
    /\ Cardinality(mapLayers) = MaxFrameCount

\* C3: a tick's showFrame changes nothing when a transition is in progress
\* or when the clamped target is the current frame: no opacity, index,
\* flag or scheduler change, no callback scheduled, no event dispatched.
C3_ShowFrameNoOp ==
    [][(/\ lastOp' = "tick"
        /\ \/ isTransitioning
           \/ /\ Len(radarFrames) > 0
              /\ ClampIndex(radarFrames,
                            NextIndex(currentFrameIndex, Len(radarFrames)))
                   = currentFrameIndex)
       => /\ UNCHANGED <<radarFrames, currentFrameIndex, isTransitioning,
                         rafQueue, mapLayers, animationInterval, timers,
                         isAnimating, pendingLoads, visible>>
          /\ \A l \in Reachable : opacity'[l] = opacity[l]
          /\ dispatched' = <<>>]_vars

\* A tick has fired while a cross-fade was half way.
C3_Witness ==
    /\ lastOp = "tick"
    /\ isTransitioning
    /\ Len(rafQueue) = 1
    /\ rafQueue[1].elapsed > 0

\* C4: at most one cross-fade loop (chain of animation-frame callbacks) is
\* pending in any reachable state.
C4_AtMostOneAnimationLoop == Len(rafQueue) <= 1

\* C5: a tick that fires during a transition leaves currentFrameIndex (and
\* the pending callbacks) unchanged; a tick that fires on an idle, non-empty
\* frame set starts a transition to (currentFrameIndex + 1) mod N when that
\* is another frame; and the completion of a transition sets
\* currentFrameIndex to the transition's target.
C5_TickDroppedThenAdvances ==
    [][/\ (lastOp' = "tick" /\ isTransitioning)
            => UNCHANGED <<currentFrameIndex, rafQueue, isTransitioning>>
       /\ (lastOp' = "tick" /\ ~isTransitioning /\ Len(radarFrames) > 0)
            => LET j == (currentFrameIndex + 1) % Len(radarFrames)
               IN  IF j # currentFrameIndex
                   THEN /\ isTransitioning'
                        /\ currentFrameIndex' = currentFrameIndex
                        /\ rafQueue' = Append(rafQueue,
                              [from |-> radarFrames[currentFrameIndex + 1].layer,
                               to |-> radarFrames[j + 1].layer,
                               index |-> j,
                               elapsed |-> 0])
                   ELSE UNCHANGED <<currentFrameIndex, rafQueue, isTransitioning>>
       /\ (lastOp' = "animate" /\ Head(rafQueue).elapsed >= StepsPerTransition)
            => currentFrameIndex' = Head(rafQueue).index]_vars

\* A tick has started the transition from frame 1 to frame 2, so an earlier
\* transition has completed before it.
C5_Witness ==
    /\ lastOp = "tick"
    /\ isTransitioning
    /\ currentFrameIndex = 1
    /\ Len(rafQueue) = 1
    /\ rafQueue[1].index = 2
    /\ rafQueue[1].elapsed = 0

\* C6: when the callback of a transition from frame i to frame j completes
\* it, and j is an index of the current frame set, the outgoing frame's
\* opacity is exactly 0, the incoming frame's is exactly the visible value,
\* currentFrameIndex is j, isTransitioning is false, and exactly one
\* frameChanged is dispatched, with index j, the timestamp of frame j of the
\* current frame set, and total N.
C6_TransitionCompletion ==
    [][(/\ lastOp' = "animate"
        /\ Head(rafQueue).elapsed >= StepsPerTransition
        /\ Head(rafQueue).index < Len(radarFrames))
       => LET loop == Head(rafQueue)
          IN  /\ loop.from # loop.to
              /\ opacity'[loop.from] = 0
              /\ opacity'[loop.to] = OpacityVisible
              /\ currentFrameIndex' = loop.index
              /\ ~isTransitioning'
              /\ SelectSeq(dispatched', LAMBDA e : e.type = "frameChanged") =
                   <<[type |-> "frameChanged",
                      index |-> loop.index,
                      timestamp |-> radarFrames[loop.index + 1].timestamp,
                      total |-> Len(radarFrames)]>>]_vars

\* The transition from frame 0 to frame 1 has just completed.
C6_Witness ==
    /\ lastOp = "animate"
    /\ ~isTransitioning
    /\ rafQueue = <<>>
    /\ currentFrameIndex = 1
    /\ dispatched[Len(dispatched)].type = "frameChanged"
    /\ opacity[radarFrames[1].layer] = 0
    /\ opacity[radarFrames[2].layer] = OpacityVisible

\* C7: at every animation step of a transition the outgoing frame's opacity
\* does not rise, the incoming frame's does not fall, the two add up to the
\* visible value, and they are not both 0.
C7_CrossFadeMonotone ==
    [][lastOp' = "animate"
       => LET loop == Head(rafQueue)
          IN  /\ opacity'[loop.from] <= opacity[loop.from]
              /\ opacity'[loop.to] >= opacity[loop.to]
              /\ opacity'[loop.from] + opacity'[loop.to] = OpacityVisible
              /\ ~(opacity'[loop.from] = 0 /\ opacity'[loop.to] = 0)]_vars

\* The handler that ran last built a frame set.
JustBuilt == lastOp \in {"show", "refresh"} \/ (lastOp = "mount" /\ visible)

\* C8: a build yields frameCount frames, oldest first, whose consecutive
\* timestamps differ by exactly the interval (so they increase strictly) and
\* whose last timestamp is the time the build read from the clock.
C8_TimestampsEvenlySpaced ==
    (JustBuilt /\ frameCount >= 1) =>
        /\ Len(radarFrames) = frameCount
        /\ \A k \in 1..(Len(radarFrames) - 1) :
             radarFrames[k + 1].timestamp - radarFrames[k].timestamp
                = IntervalMinutes
        /\ radarFrames[Len(radarFrames)].timestamp = clock

\* C9: right after the synchronous part of a build, with the hazard fetch
\* still pending, every layer of the new frame set is on the map,
\* currentFrameIndex is 0, frame 0 has the visible opacity and every other
\* frame has opacity 0.
C9_AfterBuild ==
    JustBuilt =>
        /\ Len(radarFrames) = frameCount
        /\ Cardinality(FrameLayers) = frameCount
        /\ \A k \in 1..Len(radarFrames) :
             /\ radarFrames[k].layer \in mapLayers
             /\ radarFrames[k].layer[1] = loads
             /\ opacity[radarFrames[k].layer]
                  = IF k = 1 THEN OpacityVisible ELSE 0
        /\ currentFrameIndex = 0
        /\ frameCount >= 1 => loads \in pendingLoads

\* A refresh has rebuilt a full frame set while a cross-fade of the
\* previous one was running.
C9_Witness ==
    /\ lastOp = "refresh"
    /\ Len(radarFrames) = MaxFrameCount
    /\ pendingLoads # {}
    /\ rafQueue # <<>>

\* C10 as stated: once stopped, the scheduler is started by nothing but the
\* owner's toggleAnimation; a load never starts it.
C10_NoAutoStart ==
    [][(animationInterval = NULL /\ animationInterval' # NULL)
       => lastOp' = "toggleAnimation"]_vars

\* C10 amended: a build leaves the scheduler stopped while its hazard fetch
\* is pending; the load's continuation leaves it running whenever the frame
\* set then holds more than one frame; nothing but a load's continuation
\* and toggleAnimation starts it.
C10_AutoStartAfterLoad ==
    [][/\ lastOp' \in BuildOps
            => (animationInterval' = NULL /\ ~isAnimating' /\ timers' = 0)
       /\ (lastOp' = "loadSettled" /\ Len(radarFrames') > 1)
            => (animationInterval' # NULL /\ isAnimating' /\ timers' = 1)
       /\ (animationInterval = NULL /\ animationInterval' # NULL)
            => lastOp' \in {"loadSettled", "toggleAnimation"}]_vars

\* The continuation of a refresh's load has started the scheduler.
C10_Witness ==
    /\ lastOp = "loadSettled"
    /\ loads >= 2
    /\ pendingLoads = {}
    /\ timers = 1
    /\ dispatched[Len(dispatched)] = [type |-> "animationStarted"]

Stopped == animationInterval = NULL /\ ~isAnimating /\ timers = 0

\* C11: right after the overlay is hidden, and right after a load or refresh
\* begins, no tick timer is scheduled and isAnimating is false; and while
\* the overlay stays hidden the scheduler never becomes running.
C11_AutoStop ==
    [][/\ lastOp' = "hide" => Stopped'
       /\ lastOp' \in BuildOps => Stopped'
       /\ (~visible /\ ~visible' /\ mounted) => Stopped']_vars

\* C12: while the frame set holds 0 or 1 frames no tick timer is scheduled,
\* whatever loads, refreshes and toggleAnimation calls came before.
C12_NeverStartedBelowTwoFrames ==
    Len(radarFrames) <= 1 => (animationInterval = NULL /\ timers = 0)

\* The events of one type among those the last handler dispatched.
Events(type) == SelectSeq(dispatched, LAMBDA e : e.type = type)

\* C13: at most one tick timer exists; a start on a running scheduler
\* changes nothing of it; and animationStarted is dispatched exactly by the
\* handlers that create a timer.
C13_StartIsIdempotent ==
    [][/\ timers' <= 1
       /\ (lastOp' = "loadSettled" /\ animationInterval # NULL)
            => UNCHANGED <<animationInterval, timers, isAnimating>>
       /\ Len(Events("animationStarted")') =
            (IF animationInterval = NULL /\ animationInterval' # NULL
             THEN 1 ELSE 0)
       /\ (animationInterval = NULL /\ animationInterval' # NULL)
            => timers' = timers + 1]_vars

\* A load's continuation has called startAnimation on a scheduler that the
\* owner had started while the hazard fetch was pending.
C13_Witness ==
    /\ lastOp = "loadSettled"
    /\ Len(radarFrames) > 1
    /\ timers = 1
    /\ isAnimating
    /\ Events("animationStarted") = <<>>
    /\ Events("frameChanged") # <<>>

\* The hazard fetch of the handler that ran last failed.
FetchFailed == response = "failed"

\* The ids of the hazards of the feed that have properties and a geometry,
\* are valid at time t, and have a vertex of their first ring in the
\* viewport.
HazardsAt(t) ==
    {h.id : h \in {x \in features :
                     /\ x.properties /\ HasGeometry(x)
                     /\ x.effective <= t /\ t <= x.expires
                     /\ \E k \in 1..Len(x.ring) :
                          /\ x.ring[k][2] >= Bounds.south
                          /\ x.ring[k][2] <= Bounds.north
                          /\ x.ring[k][1] >= Bounds.west
                          /\ x.ring[k][1] <= Bounds.east}}

\* C14: when the hazard fetch of a load has succeeded, the index entry of
\* every frame holds exactly the hazards with properties and geometry whose
\* validity window contains the frame's timestamp (bounds included) and
\* whose first ring has a vertex inside the viewport.
C14_IndexIsValidAndInView ==
    (lastOp = "loadSettled" /\ ~FetchFailed) =>
        /\ Len(warningsByFrame) = Len(radarFrames)
        /\ \A k \in 1..Len(radarFrames) :
             warningsByFrame[k] = HazardsAt(radarFrames[k].timestamp)

\* The features of the feed whose geometry is present and has both
\* coordinates and a type.
WellFormed == {h \in features : h.geometry \in {"Polygon", "Point"}}

\* C15: when the hazard fetch of a load has succeeded, no hazard whose
\* geometry is missing, or lacks coordinates, or lacks a type is in any
\* frame's index entry, and the index is what it would be for the other
\* hazards of the feed alone.
C15_MalformedGeometryExcluded ==
    (lastOp = "loadSettled" /\ ~FetchFailed) =>
        warningsByFrame = ComputeIndex(WellFormed, radarFrames, Bounds)

\* C16: when the hazard fetch of a load fails and the frame set is there,
\* the index becomes an empty entry for every frame of the current frame
\* set, an error with source 'warnings' is dispatched, the frame set, its
\* opacities, its layers on the map and the current frame stay as they
\* were, radarLoaded and frameChanged are dispatched all the same, and the
\* scheduler runs afterwards if there is more than one frame.
C16_FeedFailureDegrades ==
    [][(lastOp' = "loadSettled" /\ FetchFailed' /\ Len(radarFrames) > 0)
       => /\ warningsByFrame' = [k \in 1..Len(radarFrames) |-> {}]
          /\ Len(Events("error")') = 1
          /\ Events("error")'[1].source = "warnings"
          /\ UNCHANGED <<radarFrames, mapLayers, currentFrameIndex, rafQueue,
                         isTransitioning>>
          /\ \A l \in FrameLayers : opacity'[l] = opacity[l]
          /\ Len(Events("radarLoaded")') = 1
          /\ Len(Events("frameChanged")') = 1
          /\ Len(radarFrames) > 1 => (animationInterval' # NULL /\ isAnimating')]_vars

\* The hazard fetch of a load has failed and the frames play.
C16_Witness ==
    /\ lastOp = "loadSettled"
    /\ FetchFailed
    /\ Len(radarFrames) = MaxFrameCount
    /\ warningsByFrame = [k \in 1..MaxFrameCount |-> {}]
    /\ Events("animationStarted") # <<>>
    /\ timers = 1

\* C17: in every reachable state the hazard index has as many entries as
\* the current frame set has frames (so that no entry of an index computed
\* for an earlier frame set is there to be shown for the current one).
C17_IndexMatchesFrameSet == Len(warningsByFrame) = Len(radarFrames)

\* The frame set built by load number g is not the current one.
Superseded(g) == \A k \in 1..Len(radarFrames) : radarFrames[k].layer[1] # g

\* C18: the continuation of a load that was superseded while its hazard
\* fetch was pending (by a refresh, a hide, or a hide and a show) changes
\* neither the index, nor the current frame, nor the scheduler, nor the
\* hazards drawn, and dispatches no radarLoaded, frameChanged or error.
C18_StaleLoadDiscarded ==
    [][(lastOp' = "loadSettled"
        /\ \E g \in pendingLoads : g \notin pendingLoads' /\ Superseded(g))
       => /\ UNCHANGED <<warningsByFrame, currentFrameIndex, animationInterval,
                         timers, isAnimating, warningsLayer>>
          /\ Events("radarLoaded")' = <<>>
          /\ Events("frameChanged")' = <<>>
          /\ Events("error")' = <<>>]_vars

\* C19: every handler that loads or refreshes the overlay (with at least
\* one frame to build) issues exactly one hazard-feed request, and a tick,
\* an animation callback or the passing of time issues none.
C19_OneFetchPerLoad ==
    /\ (JustBuilt /\ frameCount >= 1) => fetched = 1
    /\ lastOp \in {"tick", "animate", "time"} => fetched = 0

\* C20: getCachedApiResponse(url, M) at time t returns the payload that was
\* last stored under url by cacheApiResponse, at t0, when t - t0 <= M; it
\* returns null when t - t0 > M, and null when nothing was stored under url.
C20_ApiEntryFreshWithinMaxAge ==
    [][cacheOp' = "get"
       => LET last == stored[result'.url]
          IN  result'.value =
                IF last.payload = NULL THEN NULL
                ELSE IF time - last.at <= result'.maxAge THEN last.payload
                ELSE NULL]_vars

\* An entry is read with the default max age one minute after it expired.
C20_Witness ==
    /\ cacheOp = "get"
    /\ result.maxAge = MAX_API_CACHE_AGE
    /\ stored[result.url].payload # NULL
    /\ time - stored[result.url].at = MAX_API_CACHE_AGE + 1
    /\ result.value = NULL
    /\ Match(apiTier, result.url) # 0

\* An entry of cacheApiResponse that a read with `maxAge` at `now` finds too old.
Stale(e, maxAge, now) == e.body.wrapped /\ now - e.body.timestamp > maxAge

\* C21: a cache read never modifies a tier: getCachedApiResponse that finds
\* an over-age entry returns null and leaves the entry and all tiers as they
\* were; an over-age entry leaves the tier only in an eviction pass or in
\* clearAllCaches.
C21_ReadLeavesTierAlone ==
    [][/\ cacheOp' = "get"
          => /\ apiTier' = apiTier
             /\ mapTier' = mapTier
             /\ staticTier' = staticTier
             /\ LET k == Match(apiTier, result'.url)
                IN  (k # 0 /\ Stale(apiTier[k], result'.maxAge, time))
                       => result'.value = NULL
       /\ \A k \in 1..Len(apiTier) :
             (Stale(apiTier[k], MAX_API_CACHE_AGE, time)
                /\ apiTier[k].url \notin Keys(apiTier'))
               => cacheOp' \in {"trim", "clearDelete"}]_vars

\* A read has just missed on an over-age entry of a tier of more than ten
\* entries, and the entry is still there.
C21_Witness ==
    /\ cacheOp = "get"
    /\ Len(apiTier) > TrimThreshold
    /\ Match(apiTier, result.url) # 0
    /\ Stale(apiTier[Match(apiTier, result.url)], result.maxAge, time)
    /\ result.value = NULL

\* A tier that trimCache would cut: more than ten entries and over its budget.
OverBudget(tier, maxSize) ==
    Len(tier) > TrimThreshold /\ TotalSize(tier) > maxSize

\* C22: every store of an entry into a tier is followed by an eviction pass
\* on that tier when the tier is over its budget: a step of cacheApiResponse
\* or of the service worker that puts an entry into the api tier and leaves
\* it with more than 10 entries and over MAX_API_CACHE_SIZE leaves a
\* trimCache of that tier pending.
C22_StoreFollowedByEviction ==
    [][(cacheOp' \in {"put", "swPut"} /\ apiTier' # apiTier)
         => (OverBudget(apiTier', MAX_API_CACHE_SIZE) => trimsPending' > 0)]_vars

\* The tier without its n oldest-stored entries (a put appends, so the
\* entries of a tier are in the order in which they were stored).
WithoutOldest(tier, n) == SubSeq(tier, n + 1, Len(tier))

\* What an eviction pass that removes oldest-stored-first and stops as soon
\* as the rest fits leaves of a tier.
OldestFirstTrim(tier, maxSize) ==
    IF ~OverBudget(tier, maxSize) THEN tier
    ELSE LET n == CHOOSE n \in 0..Len(tier) :
                    /\ TotalSize(WithoutOldest(tier, n)) <= maxSize
                    /\ \A m \in 0..(n - 1) :
                          TotalSize(WithoutOldest(tier, m)) > maxSize
         IN  WithoutOldest(tier, n)

\* C23: trimCache on a tier over budget with more than 10 entries removes
\* the oldest-stored entries first and stops as soon as the rest is within
\* maxSize, so that no removed entry is newer than a kept one; on a tier of
\* 10 or fewer entries, or within budget, it removes nothing.
C23_TrimRemovesOldestFirst ==
    [][cacheOp' = "trim"
         => apiTier' = OldestFirstTrim(apiTier, MAX_API_CACHE_SIZE)]_vars

\* An entry of the api tier that is past the tier's max age at `now`.
PastMaxAge(e, now) == now - e.at > MAX_API_CACHE_AGE

\* C24: in an eviction pass on the api tier every entry already past its
\* max age is removed before any entry still within it, whichever writer
\* stored them: when the pass removes an entry that is within its max age,
\* no entry past its max age is left.
C24_ExpiredRemovedFirst ==
    [][cacheOp' = "trim"
         => \A i, j \in 1..Len(apiTier) :
              (/\ PastMaxAge(apiTier[i], time)
               /\ ~PastMaxAge(apiTier[j], time)
               /\ apiTier[j].url \notin Keys(apiTier'))
                => apiTier[i].url \notin Keys(apiTier')]_vars

\* C25 as stated: when clearAllCaches returns true the tile, the api and the
\* static tier each hold no entries.
C25_AllTiersEmptyOnReturn ==
    cacheOp = "clearReturn" => (mapTier = <<>> /\ apiTier = <<>> /\ staticTier = <<>>)

\* C25, amended: clearAllCaches deletes each of the three caches whatever
\* it holds and returns true only when the three deletes are done; a cache
\* is empty when its delete is done, so that at the return a tier holds
\* only what a writer has put since.
C25_EveryTierDeleted ==
    [][/\ cacheOp' = "clearDelete"
          => \E name \in clearing.pending :
               /\ clearing'.pending = clearing.pending \ {name}
               /\ epoch'[name] = epoch[name] + 1
               /\ (name = "tiles" => mapTier' = <<>>)
               /\ (name = "api" => apiTier' = <<>>)
               /\ (name = "static" => staticTier' = <<>>)
       /\ cacheOp' = "clearReturn"
          => /\ result'.value = TRUE
             /\ \A name \in TierNames : epoch[name] = clears]_vars

\* clearAllCaches has returned true; the tile tier is empty and the api tier
\* holds what the service worker has put after the delete of that cache.
C25_Witness ==
    /\ cacheOp = "clearReturn"
    /\ mapTier = <<>>
    /\ staticTier = <<>>
    /\ apiTier # <<>>

\* The keys a step takes out of a tier.
Removed(tier, tierAfter) == Keys(tier) \ Keys(tierAfter)

\* C26: an entry of the tile, api or static tier is removed only by an
\* eviction pass (trimCache) or by clearAllCaches: no read, no store under
\* another key, no install or activate of the service worker and no
\* handling of a fetch event takes a key out of one of the three tiers.
C26_RemovedOnlyByTrimOrClear ==
    [][(\/ Removed(mapTier, mapTier') # {}
        \/ Removed(apiTier, apiTier') # {}
        \/ Removed(staticTier, staticTier') # {})
         => cacheOp' \in {"trim", "tilesTrim", "clearDelete"}]_vars

\* activate has deleted the cache of an older version and the tiers still
\* hold the tiles and the assets stored before.
C26_Witness ==
    /\ cacheOp = "activate"
    /\ otherCaches = {}
    /\ Len(mapTier) = Len(TileKeys)
    /\ Len(staticTier) = Len(STATIC_ASSETS)

\* The request a fetch event step is about.
Requested == CHOOSE r \in Requests : r.url = swResponse'.url

\* The kinds of request the claim names.
IsTileImage(r) ==
    r.host \in {"a.tile.openstreetmap.org", "opengeo.ncep.noaa.gov"}
IsAlertFeed(r) == r.host = "api.weather.gov"
IsManifestAsset(r) ==
    r.host = Origin /\ r.path \in {STATIC_ASSETS[k] : k \in 1..Len(STATIC_ASSETS)}

\* C27 as stated: every GET request is handled as exactly one of tile image
\* (radar and base-map tiles, cache-first), alert feed (network-first) and
\* static asset (cache-first), and by no other strategy.
C27_ThreeClasses ==
    [][(cacheOp' = "swEvent" /\ Requested.method = "GET")
         => /\ swResponse'.branch \in {"tiles", "api", "static"}
            /\ IsTileImage(Requested) => swResponse'.branch = "tiles"
            /\ IsAlertFeed(Requested) => swResponse'.branch = "api"
            /\ IsManifestAsset(Requested) => swResponse'.branch = "static"]_vars

\* The branch the handler has for a request.
ClassOf(r) ==
    IF r.method # "GET" THEN "none"
    ELSE IF r.host = "a.tile.openstreetmap.org" THEN "tiles"
    ELSE IF r.host \in {"api.weather.gov", "opengeo.ncep.noaa.gov"} THEN "api"
    ELSE IF IsManifestAsset(r) THEN "static"
    ELSE "default"

\* C27, amended: every GET request is handled by exactly one of four
\* branches: base-map tiles cache-first on the tile tier; requests to the
\* weather hosts, the alert feed and the radar images alike, network-first;
\* manifest assets cache-first on the static tier; every other request
\* network-first by the default branch.  Cache-first answers a hit without
\* a fetch and fetches on a miss; network-first always fetches.  A request
\* that is not a GET is not handled.
C27_OneBranchPerRequest ==
    [][cacheOp' = "swEvent"
         => LET r == Requested
                b == swResponse'.branch
            IN  /\ b = ClassOf(r)
                /\ b = "none" => (swResponse'.from = "unhandled" /\ inFlight' = inFlight)
                /\ b \in {"tiles", "static"} =>
                      IF r.url \in Keys(Tier(b))
                      THEN /\ swResponse'.from = "cache"
                           /\ ~swResponse'.fetched
                           /\ inFlight' = inFlight
                      ELSE /\ swResponse'.fetched
                           /\ \E q \in inFlight' \ inFlight :
                                 q.req = r /\ q.branch = b /\ q.stage = "fetch"
                /\ b \in {"api", "default"} =>
                      /\ swResponse'.fetched
                      /\ \E q \in inFlight' \ inFlight :
                            q.req = r /\ q.branch = b /\ q.stage = "fetch"]_vars

\* A radar image is requested while the api tier holds a copy of it: the
\* weather branch fetches it all the same.
C27_Witness ==
    /\ cacheOp = "swEvent"
    /\ swResponse.url = "radar/11"
    /\ swResponse.branch = "api"
    /\ swResponse.fetched
    /\ "radar/11" \in Keys(apiTier)

\* The request whose put a step of the service worker carries out.
PutOf(b) == {q \in inFlight \ inFlight' : q.stage = "put" /\ q.branch = b}

\* The cache-first handling of a request of branch b on the tier of b: a hit
\* is answered with the cached response and without a fetch; on a miss the
\* request is fetched, and the response is answered and put into the tier
\* (into the cache the request opened: a cache deleted meanwhile is not
\* written to).
CacheFirst(b) ==
    /\ (cacheOp' = "swEvent" /\ swResponse'.branch = b)
          => IF swResponse'.url \in Keys(Tier(b))
             THEN /\ swResponse'.from = "cache"
                  /\ swResponse'.body = Tier(b)[Match(Tier(b), swResponse'.url)].body
                  /\ ~swResponse'.fetched
                  /\ inFlight' = inFlight
                  /\ UNCHANGED <<mapTier, apiTier, staticTier>>
             ELSE /\ swResponse'.from = "pending"
                  /\ swResponse'.fetched
    /\ (cacheOp' = "swSettled" /\ swResponse'.branch = b /\ swResponse'.from = "network")
          => \E q \in inFlight' :
               /\ q.stage = "put"
               /\ q.entry.url = swResponse'.url
               /\ q.entry.body = swResponse'.body
    /\ cacheOp' = "swPut"
          => \A q \in PutOf(b) :
               LET tier == IF b = "tiles" THEN mapTier' ELSE staticTier'
               IN  q.handle = epoch[b]
                     => /\ Match(tier, q.entry.url) # 0
                        /\ tier[Match(tier, q.entry.url)] = q.entry

WeatherBranchNetworkFirst ==
    /\ (cacheOp' = "swEvent" /\ swResponse'.url = AlertsRequest.url)
          => /\ swResponse'.from = "pending"
             /\ swResponse'.fetched
             /\ \E q \in inFlight' \ inFlight :
                  q.req = AlertsRequest /\ q.stage = "fetch"
    /\ (cacheOp' = "swSettled" /\ swResponse'.url = AlertsRequest.url)
          => LET k == Match(apiTier, AlertsRequest.url)
             IN  /\ swResponse'.fetched
                 /\ swResponse'.from \in {"network", "cache", "offlineError"}
                 /\ swResponse'.from = "network"
                      => \E q \in inFlight' :
                           /\ q.stage = "put"
                           /\ q.branch = "api"
                           /\ q.entry.url = AlertsRequest.url
                           /\ q.entry.body = swResponse'.body
                 /\ swResponse'.from = "cache"
                      => /\ k # 0
                         /\ swResponse'.body = apiTier[k].body
                         /\ \A q \in inFlight' : q.req.url # AlertsRequest.url
                 /\ swResponse'.from = "offlineError"
                      => /\ k = 0
                         /\ \A q \in inFlight' : q.req.url # AlertsRequest.url
    /\ cacheOp' = "swPut"
          => \A q \in PutOf("api") :
               /\ Match(apiTier', q.entry.url) # 0
               /\ apiTier'[Match(apiTier', q.entry.url)] = q.entry

\* The alerts are taken from the api tier in this step, and no fetch for
\* them has been started.
AlertsFromCacheWithoutFetch ==
    /\ cacheOp' = "loadAlerts"
    /\ Truthy(result'.value)
    /\ inFlight' = inFlight

\* C29: the alert feed is handled network-first: the network is tried first,
\* a response is stored in the api tier and returned, a cached copy is
\* returned only when the fetch has failed, the offline error when the tier
\* has no copy either; on no path is the feed served from the cache without
\* an attempt on the network.
C29_AlertFeedNetworkFirst ==
    [][WeatherBranchNetworkFirst /\ ~AlertsFromCacheWithoutFetch]_vars

\* C30: a static asset whose key is in the static tier is answered with the
\* stored response, whenever that was stored, without a fetch; on a miss it
\* is fetched, and the response is stored in the static tier and returned.
C30_StaticCacheFirst ==
    [][/\ CacheFirst("static")
       /\ (cacheOp' = "swSettled" /\ swResponse'.branch = "static")
            => swResponse'.from \in {"network", "networkError"}]_vars

\* The page of an install of an earlier run is answered from the static
\* tier half an hour later.
C30_Witness ==
    /\ cacheOp = "swEvent"
    /\ swResponse.branch = "static"
    /\ swResponse.from = "cache"
    /\ ~swResponse.fetched
    /\ \E k \in 1..Len(staticTier) :
         /\ staticTier[k].url = swResponse.url
         /\ staticTier[k].body = swResponse.body
         /\ time - staticTier[k].at > MAX_API_CACHE_AGE

\* C31: a cache failure is advisory: when opening or reading a cache fails
\* while a request is handled, the request goes to the network (and a read
\* of the cache service gives null, so that its caller fetches); a cache
\* write that fails leaves the tiers and the response as they are.
C31_CacheFailureFallsThrough ==
    [][/\ (cacheOp' = "swEventStorageFailed" /\ swResponse'.branch # "none")
            => /\ swResponse'.from = "pending"
               /\ swResponse'.fetched
               /\ \E q \in inFlight' \ inFlight :
                    q.req.url = swResponse'.url /\ q.stage = "fetch"
       /\ cacheOp' = "getStorageFailed" => result'.value = NULL
       /\ cacheOp' = "swPutFailed"
            => UNCHANGED <<apiTier, mapTier, staticTier>>]_vars

\* C32: a tile that fails to load on a radar layer changes nothing in the
\* overlay: the frame set and its layers on the map, the opacities, the
\* current index, the playback timer, a running transition and the error
\* message are as before, and no event is dispatched.
C32_TileErrorChangesNothing ==
    [][lastOp' = "tileerror"
        => /\ UNCHANGED <<radarFrames, mapLayers, currentFrameIndex,
                          isAnimating, animationInterval, timers,
                          isTransitioning, rafQueue, errorMessage,
                          warningsByFrame, warningsLayer, visible>>
           /\ opacity' = Cur.opacity
           /\ dispatched' = <<>>]_vars

\* A tile fails during a cross-fade of a running playback, while the
\* message of a failed hazard fetch is shown.
C32_Witness ==
    /\ lastOp = "tileerror"
    /\ isTransitioning
    /\ isAnimating
    /\ rafQueue # <<>>
    /\ errorMessage = WarningsMessage

\* A read of the alert feed's key, within the max age of what
\* cacheApiResponse stored there last, while the key is in the tier.
ReadsAlertsWithinMaxAge ==
    /\ cacheOp' = "get"
    /\ result'.url = AlertsRequest.url
    /\ stored[AlertsRequest.url].payload # NULL
    /\ time - stored[AlertsRequest.url].at <= result'.maxAge
    /\ Match(apiTier, AlertsRequest.url) # 0

\* The service worker answers a request of the alert feed from the api tier.
AlertsFallback ==
    /\ cacheOp' = "swSettled"
    /\ swResponse'.url = AlertsRequest.url
    /\ swResponse'.from = "cache"

\* C33: the two writers of the alert feed's key in the api tier do not get
\* into each other's way: a read within the max age returns the payload
\* last passed to cacheApiResponse, and the service worker's fallback
\* answers with a response as the feed sent it.
C33_SameKeyWritersDoNotConflict ==
    [][/\ ReadsAlertsWithinMaxAge
            => result'.value = stored[AlertsRequest.url].payload
       /\ AlertsFallback => ~swResponse'.body.wrapped]_vars

\* An animation callback completes its transition in this step: it is the
\* only step that takes a callback from the queue without asking for the
\* next one.
CompletesTransition ==
    /\ lastOp' = "animate"
    /\ Len(rafQueue') < Len(rafQueue)

\* C34: every transition that was started completes: isTransitioning, once
\* true, becomes false again, whatever ticks, refreshes and hides come in
\* between; and the callback that completes a transition leaves its two
\* layers at the final opacities and the flag cleared.
C34_TransitionEventuallyCompletes ==
    /\ isTransitioning ~> ~isTransitioning
    /\ [][CompletesTransition
            => /\ opacity'[Head(rafQueue).from] = 0
               /\ opacity'[Head(rafQueue).to] = OpacityVisible
               /\ ~isTransitioning']_vars
    /\ [](isTransitioning => rafQueue # <<>>)

\* A transition that was started before a refresh has completed after it,
\* on the layers of the earlier frame set.
C34_Witness ==
    /\ lastOp = "animate"
    /\ ~isTransitioning
    /\ rafQueue = <<>>
    /\ loads = MaxLoads
    /\ \E l \in DOMAIN opacity :
         /\ l \notin {radarFrames[k].layer : k \in 1..Len(radarFrames)}
         /\ opacity[l] = OpacityVisible

\* The handler of this step called stopAnimation and did not start the
\* playback after it.
StoppedLast ==
    /\ Events("animationStopped")' # <<>>
    /\ \A k \in 1..Len(dispatched') :
         dispatched'[k].type = "animationStarted"
           => \E j \in (k + 1)..Len(dispatched') :
                dispatched'[j].type = "animationStopped"

\* C35: the playback flag and the tick timer agree in every state:
\* isAnimating holds exactly when an interval is registered, and then
\* exactly one is live; stopAnimation leaves the flag, the handle and the
\* timer cleared; and a tick comes only from a registered interval, so none
\* comes between a stop and the next start.
C35_FlagAndTimerAgree ==
    /\ [](/\ isAnimating <=> animationInterval # NULL
          /\ timers = IF isAnimating THEN 1 ELSE 0)
    /\ [][/\ StoppedLast
               => ~isAnimating' /\ animationInterval' = NULL /\ timers' = 0
          /\ lastOp' = "tick"
               => isAnimating /\ animationInterval # NULL]_vars

\* toggleAnimation has stopped a running playback of a frame set.
C35_Witness ==
    /\ lastOp = "toggleAnimation"
    /\ Events("animationStopped") # <<>>
    /\ ~isAnimating
    /\ animationInterval = NULL
    /\ timers = 0
    /\ Len(radarFrames) >= 2

\* The overlay is visible and its last load has run to its end (no
\* loadRadarFrames is waiting for its hazard fetch).
LoadCompleted ==
    /\ mounted
    /\ visible
    /\ pendingLoads = {}
    /\ HasFrame(radarFrames, currentFrameIndex)
    /\ HasFrame(warningsByFrame, currentFrameIndex)

\* The hazards that have a polygon on the map.
Shown == IF warningsLayer.onMap THEN warningsLayer.drawn ELSE {}

\* The hazards of the current frame's index entry that can be drawn.
CurrentEntry == Drawable(features, FrameAt(warningsByFrame, currentFrameIndex))

\* C36: when the overlay is visible, a load has completed and no transition
\* is running, the hazards on the map are those of the index entry of the
\* current frame; the continuation of loadWarnings adds no hazard outside
\* that entry to the layer on the map.
C36_ShownIsCurrentEntry ==
    /\ []((LoadCompleted /\ ~isTransitioning) => Shown = CurrentEntry)
    /\ [][(lastOp' = "warningsSettled" /\ LoadCompleted')
            => (Shown' \ Shown) \subseteq CurrentEntry']_vars

\* The owner has the overlay hidden.
Hidden == mounted /\ ~visible

\* C37: while the overlay is hidden no radar layer and no warnings layer
\* group is on the map, whatever animation callback or fetch continuation
\* of the time before the hide runs afterwards.  (`warningsLayer` is the
\* one group the component can have on the map: each group is created
\* right after removeWarningsLayer.)
C37_NothingOnMapWhileHidden ==
    Hidden => (mapLayers = {} /\ ~warningsLayer.onMap)

\* The animation callback that runs in this step belongs to a transition
\* of a frame set that has been replaced since.
StaleCallback ==
    /\ lastOp' = "animate"
    /\ Head(rafQueue).to \notin FrameLayers

\* C38: with a non-empty frame set currentFrameIndex is one of its indices,
\* and when no transition runs the frame at it has the visible opacity; a
\* transition that was started on an earlier frame set neither changes
\* currentFrameIndex nor dispatches frameChanged.
C38_IndexFollowsCurrentFrameSet ==
    /\ [](Len(radarFrames) > 0
            => /\ HasFrame(radarFrames, currentFrameIndex)
               /\ ~isTransitioning
                    => opacity[FrameAt(radarFrames, currentFrameIndex).layer]
                         = OpacityVisible)
    /\ [][StaleCallback
            => /\ currentFrameIndex' = currentFrameIndex
               /\ Events("frameChanged")' = <<>>]_vars

\* C39: the service worker stores a response only when its status is a
\* success: no entry of the tile, api or static tier is a response with a
\* non-success status, and none is served as a cache hit.
C39_OnlySuccessStored ==
    /\ \A name \in TierNames : \A k \in 1..Len(Tier(name)) :
         Tier(name)[k].body.data # ErrorBody
    /\ swResponse.from = "cache" => swResponse.body.data # ErrorBody

\* The weather store's functions called in any order, the timers they set
\* firing, and the service worker answering the loads they start.
InitStoreRun == InitStored(ApiTierHistories, {<<>>}, {<<>>})

NextStore ==
    \/ InitWeatherStore
    \/ ToggleAutoRefresh
    \/ CleanupWeatherStore
    \/ ResetWeather
    \/ IntervalFires
    \/ WorkerFetchSettled
    \/ WorkerPutDone

SpecStore == InitStoreRun /\ [][NextStore]_vars

\* C40: after any sequence of initWeatherStore, toggleAutoRefresh,
\* cleanupWeatherStore and resetWeather at most one auto-refresh interval
\* timer is live, and one is live exactly when the store holds a handle in
\* refreshInterval, the handle of that timer: no timer keeps firing after
\* the store has dropped its handle.
C40_OneTimerHeldByStore ==
    /\ Cardinality(liveIntervals) <= 1
    /\ (liveIntervals # {}) <=> (refreshInterval # NoInterval)
    /\ refreshInterval # NoInterval => refreshInterval \in liveIntervals

====